---- MODULE Spec2Model ----
(***************************************************************************)
(* Verification model of the dbgvis telemetry library:                     *)
(*   - DebugVisualizer::Graph, the rolling sample buffer                   *)
(*     (debug_visualizer.cc), checked under SpecGraph;                     *)
(*   - the background service (debug_visualizer_service.cc): client        *)
(*     threads calling Start / post_* / Shutdown, the owner thread         *)
(*     ServiceThread and the mutex-guarded pending queue, checked under    *)
(*     SpecService, SpecServiceQuiet and SpecServiceNested;                *)
(*   - single calls on a Graph (SpecGraphCall), on a Tab (SpecTabScalars,  *)
(*     SpecTabGraphs, SpecTabStructures), on StructureBuilders             *)
(*     (SpecBuilder) and on a DebugVisualizer store with window tiles      *)
(*     (SpecStore, SpecTiles, SpecStoreData), each call recorded with the  *)
(*     state it was made in.                                               *)
(***************************************************************************)
EXTENDS Integers, Sequences, FiniteSets, TLC

VARIABLES
    \* ---- DebugVisualizer::Graph ----
    graph,            \* [config, samples, latest]: config_, samples_, latest_sample_
    pushed,           \* history: every sample pushed since construction, in order
    capChanged,       \* history: some configure() changed max_samples
    \* ---- ServiceState ----
    mutex,            \* state.mutex: "free" or the thread holding it
    pending_updates,  \* state.pending_updates
    thread,           \* state.thread: 0 = not joinable, else the owner slot it refers to
    thread_started,   \* state.thread_started
    running,          \* state.running
    stop_requested,   \* state.stop_requested
    \* ---- owner threads (ServiceThread), one per slot ----
    opc,              \* position of each owner thread
    shouldClose,      \* the window's should-close flag of each owner's app
    updates,          \* FlushUpdates' local vector, swapped out of pending_updates
    joiner,           \* who is inside std::thread::join() on each owner thread
    \* ---- client threads ----
    pc,               \* position of each client thread
    cmd,              \* the command a client's post_* is about to enqueue (0: none)
    \* ---- process ----
    crashed,          \* std::terminate / uncaught std::system_error ended the process
    throws,           \* number of std::system_error exceptions the callers have caught
    destroyed,        \* ~ServiceState has completed (process exit)
    \* ---- history (observation only) ----
    nextId,           \* next fresh command id
    enqueued,         \* ids of the commands EnqueueUpdate has put in the queue
    applied,          \* id of every command application, in order
    preShut,          \* per client in Shutdown: ids enqueued before the call began
    firstCycle,       \* per owner slot: spawned and has not yet drained the queue
    early,            \* ids enqueued since the last spawn, while the new owner
                      \* thread had not yet drained the queue
    \* ---- single calls of the data API (observation only) ----
    call,             \* the last call made: its name, its arguments and the state
                      \* of the object before it
    tab,              \* a DebugVisualizer::Tab: [id, title, scalars, graphs, structures]
    build,            \* a tree of StructureNodes under construction and the
                      \* StructureBuilders on it
    store,            \* a DebugVisualizer: [window_title, visible, tabs, tiles], tabs
                      \* the sequence tabs_, tiles the sequence window_tiles_ of
                      \* [id, visualizer],
    gobj,             \* the Graph objects that exist, by address:
                      \* [config, samples, latest, x], x the address in the proxy
                      \* member x (owner_)
    apps              \* the DebugVisualizerApp objects that exist, by address: [impl, owner],
                      \* impl the Impl that impl_ owns (<<>> for null), owner the
                      \* address in Tiles.owner_ (0 for null)

graphVars == <<graph, pushed, capChanged>>
stateVars == <<mutex, pending_updates, thread, thread_started, running, stop_requested>>
ownerVars == <<opc, shouldClose, updates, joiner>>
clientVars == <<pc, cmd>>
procVars == <<crashed, throws, destroyed>>
histVars == <<nextId, enqueued, applied, preShut, firstCycle, early>>
serviceVars == <<stateVars, ownerVars, clientVars, procVars, histVars>>
objVars == <<gobj, apps>>
apiVars == <<call, tab, build, store, objVars>>
vars == <<graphVars, serviceVars, apiVars>>
\* what an action of the service leaves alone
nonServiceVars == <<graphVars, apiVars>>

(***************************************************************************)
(* Bounds of the model.                                                    *)
(***************************************************************************)
MaxCap == 4          \* capacities 0..MaxCap are explored (and the default 240)
MaxPushed == 5       \* at most this many samples are pushed into the graph
MaxBatch == 2        \* add_samples is called with at most this many samples
MaxCmds == 2         \* at most this many commands are posted to the service
MaxTabCap == 2       \* graphs of a tab have capacities 0..MaxTabCap (and the default 240)
MaxTabPushed == 2    \* at most this many samples are pushed into the graphs of a tab
MaxCalls == 4        \* at most this many calls are made on the builders of one tree
MaxThrows == 1       \* at most this many exceptions are caught by callers; later ones
                     \* end the process

SampleValues == {58, 59, 60, 61, 62}

(***************************************************************************)
(* GraphConfig (debug_visualizer.h:60-65).                                 *)
(***************************************************************************)
DefaultMaxSamples == 240

GraphConfig(n, a) ==
    [max_samples |-> n, auto_scale |-> a, manual_min |-> 0, manual_max |-> 1]

DefaultGraphConfig == GraphConfig(DefaultMaxSamples, TRUE)

Capacities == (0..MaxCap) \cup {DefaultMaxSamples}

Configs == {GraphConfig(n, a) : n \in Capacities, a \in BOOLEAN}

(***************************************************************************)
(* DebugVisualizer::Graph (debug_visualizer.cc:131-217).                   *)
(***************************************************************************)
\* Graph::Graph(GraphConfig): no samples, latest_sample_ = 0.0f
NewGraph(config) == [config |-> config, samples |-> <<>>, latest |-> 0]

\* a variant of trim_to_config that erases from the back instead of the front.
trim_to_config_back(g) ==
    IF g.config.max_samples = 0
    THEN [g EXCEPT !.samples = <<>>]
    ELSE IF Len(g.samples) > g.config.max_samples
         THEN [g EXCEPT !.samples = SubSeq(g.samples, 1, g.config.max_samples)]
         ELSE g

\* a variant of trim_to_config with no special case for 0, off by one in the comparison.
trim_to_config_offbyone(g) ==
    IF Len(g.samples) > g.config.max_samples + 1
    THEN LET excess == Len(g.samples) - g.config.max_samples
         IN  [g EXCEPT !.samples = SubSeq(g.samples, excess + 1, Len(g.samples))]
    ELSE g

\* Graph::trim_to_config
trim_to_config(g) ==
    IF g.config.max_samples = 0
    THEN [g EXCEPT !.samples = <<>>]
    ELSE IF Len(g.samples) > g.config.max_samples
         THEN LET excess == Len(g.samples) - g.config.max_samples
              IN  [g EXCEPT !.samples = SubSeq(g.samples, excess + 1, Len(g.samples))]
         ELSE g

\* a variant of push that reports the newest stored sample as the latest one
push_storedlatest(g, sample) ==
    LET h == trim_to_config([g EXCEPT !.samples = Append(g.samples, sample)])
    IN  [h EXCEPT !.latest = IF h.samples = <<>> THEN g.latest ELSE h.samples[Len(h.samples)]]

\* Graph::push
push(g, sample) ==
    trim_to_config([g EXCEPT !.latest = sample, !.samples = Append(g.samples, sample)])

\* a variant of add_samples that pushes the samples last to first
RECURSIVE add_samples_rev(_, _)
add_samples_rev(g, seq) ==
    IF seq = <<>> THEN g
    ELSE add_samples_rev(push(g, seq[Len(seq)]), SubSeq(seq, 1, Len(seq) - 1))

\* Graph::add_samples: push for each sample in order
RECURSIVE add_samples(_, _)
add_samples(g, seq) ==
    IF seq = <<>> THEN g ELSE add_samples(push(g, Head(seq)), Tail(seq))

\* a variant of configure that stores the config and leaves the samples alone
configure_untrimmed(g, config) == [g EXCEPT !.config = config]

\* Graph::configure
configure(g, config) == trim_to_config([g EXCEPT !.config = config])

\* Graph::samples, Graph::latest
samples(g) == g.samples
latest(g) == g.latest

\* All sequences over S of length 0..n
SeqsUpTo(S, n) == UNION {[1..k -> S] : k \in 0..n}

\* the last n elements of s (all of s when it is shorter)
LastN(s, n) == IF Len(s) <= n THEN s ELSE SubSeq(s, Len(s) - n + 1, Len(s))

Min(a, b) == IF a <= b THEN a ELSE b

(***************************************************************************)
(* DebugVisualizer::Tab (debug_visualizer.cc:219-408).  scalars_ and       *)
(* graphs_ are std::maps: functions whose domain is the set of keys        *)
(* present.  A scalar is written in the literal form of its C++ value; a   *)
(* stored ScalarValue is the alternative of the variant that holds it and  *)
(* the value.                                                              *)
(***************************************************************************)
EmptyMap == [k \in {} |-> 0]
Put(m, k, x) == [j \in (DOMAIN m) \cup {k} |-> IF j = k THEN x ELSE m[j]]

\* static_cast<int64_t>(int): every int is an int64_t of the same value
IntToInt64(v) == v
\* static_cast<double>(float): the double of the same value
FloatToDouble(v) ==
    CASE v = "0.5f" -> "0.5"
      [] v = "-2.0f" -> "-2.0"
\* std::string(const char*): the characters up to the terminator
CStrToString(v) == v

\* the ScalarValue that update_value(key, v) stores for an argument of C++
\* type ctype (the seven overloads)
ScalarValueOf(ctype, v) ==
    CASE ctype = "int" -> [alt |-> "int64_t", v |-> IntToInt64(v)]
      [] ctype = "int64_t" -> [alt |-> "int64_t", v |-> v]
      [] ctype = "float" -> [alt |-> "double", v |-> FloatToDouble(v)]
      [] ctype = "double" -> [alt |-> "double", v |-> v]
      [] ctype = "bool" -> [alt |-> "bool", v |-> v]
      [] ctype = "std::string" -> [alt |-> "std::string", v |-> v]
      [] ctype = "const char*" -> [alt |-> "std::string", v |-> CStrToString(v)]

(***************************************************************************)
(* StructureNode and StructureBuilder (debug_visualizer.h:36-58,           *)
(* debug_visualizer.cc:64-112).  A std::vector<StructureNode> is a record  *)
(* [items, cap]: its elements and its capacity.  A node is                 *)
(* [label, value, children], value <<>> for std::nullopt and <<x>> for a   *)
(* ScalarValue x, children the vector of its child nodes.  A builder holds *)
(* a pointer to one such vector, which lives inside an element of the      *)
(* vector of the parent: the builder is [path, st], path the positions     *)
(* that lead from the root vector to the node whose children it points to, *)
(* and st one of                                                           *)
(*   "ok"        the pointer is valid,                                     *)
(*   "detached"  the pointer is null,                                      *)
(*   "dangling"  the element holding the vector was moved to new storage   *)
(*               by a reallocation of the parent vector and the old        *)
(*               storage was freed.                                        *)
(* A build is [list, handles, log, crashed]: the root vector, the builders *)
(* that exist, the calls made on each of them (observation only) and       *)
(* whether the process has ended.  Using a dangling pointer is undefined:  *)
(* the outcome is drawn from UBOutcomes, "lost" for a write that lands in  *)
(* freed storage and is never seen again, "crash" for a process that ends. *)
(***************************************************************************)
UBOutcomes == {"lost", "crash"}

\* an empty std::vector<StructureNode>
EmptyList == [items |-> <<>>, cap |-> 0]
\* the capacity after a reallocation (the vector doubles, from 0 to 1)
Grow(c) == IF c = 0 THEN 1 ELSE 2 * c
\* std::vector::push_back: reallocates exactly when size() == capacity()
Reallocates(l) == Len(l.items) = l.cap
push_back(l, n) ==
    [items |-> Append(l.items, n),
     cap |-> IF Reallocates(l) THEN Grow(l.cap) ELSE l.cap]
\* std::vector::clear: the elements go, the capacity stays
vector_clear(l) == [items |-> <<>>, cap |-> l.cap]

\* StructureNode{label, ScalarValue{value}, {}} and StructureNode{label, std::nullopt, {}}
LeafNode(label, sv) == [label |-> label, value |-> <<sv>>, children |-> EmptyList]
GroupNode(label) == [label |-> label, value |-> <<>>, children |-> EmptyList]

\* the vector a path leads to
RECURSIVE ListAt(_, _)
ListAt(l, path) ==
    IF path = <<>> THEN l
    ELSE ListAt(l.items[Head(path)].children, Tail(path))

\* the root vector after push_back(n) on the vector a path leads to
RECURSIVE PushAt(_, _, _)
PushAt(l, path, n) ==
    IF path = <<>> THEN push_back(l, n)
    ELSE [l EXCEPT !.items[Head(path)].children = PushAt(@, Tail(path), n)]

\* h points into an element of the vector that path leads to
PointsInto(h, path) ==
    /\ Len(h.path) = Len(path) + 1
    /\ SubSeq(h.path, 1, Len(path)) = path

\* nodes_->push_back(n) through builder b: when the vector reallocates, its
\* elements move and every valid pointer into one of them dangles
AppendNode(bs, b, n) ==
    LET path == bs.handles[b].path
        moved == Reallocates(ListAt(bs.list, path))
    IN  [bs EXCEPT !.list = PushAt(bs.list, path, n),
                   !.handles = [i \in DOMAIN bs.handles |->
                                  IF moved /\ bs.handles[i].st = "ok"
                                           /\ PointsInto(bs.handles[i], path)
                                  THEN [bs.handles[i] EXCEPT !.st = "dangling"]
                                  ELSE bs.handles[i]]]

\* the call is noted in the log of the builder it was made on: a field with
\* the value it was given (ret 0), a nested with the builder it returns
Logged(bs, b, kind, label, value) ==
    [bs EXCEPT !.log[b] = Append(@, [kind |-> kind, label |-> label, value |-> value,
                                     ret |-> IF kind = "nested"
                                             THEN Len(bs.handles) + 1 ELSE 0])]

\* a variant of field that writes through a null pointer as if it pointed to
\* the root vector
field_nonull(bs, b, label, ctype, v, ub) ==
    LET st == bs.handles[b].st
        lg == Logged(bs, b, "field", label, <<ScalarValueOf(ctype, v)>>)
    IN  CASE st = "detached" ->
                 AppendNode([lg EXCEPT !.handles[b].path = <<>>], b,
                            LeafNode(label, ScalarValueOf(ctype, v)))
          [] st = "dangling" -> [lg EXCEPT !.crashed = (ub = "crash")]
          [] st = "ok" -> AppendNode(lg, b, LeafNode(label, ScalarValueOf(ctype, v)))

\* StructureBuilder::field (the seven overloads): nothing on a null pointer,
\* else push_back of a leaf
field(bs, b, label, ctype, v, ub) ==
    LET st == bs.handles[b].st
        lg == Logged(bs, b, "field", label, <<ScalarValueOf(ctype, v)>>)
    IN  CASE st = "detached" -> lg
          [] st = "dangling" -> [lg EXCEPT !.crashed = (ub = "crash")]
          [] st = "ok" -> AppendNode(lg, b, LeafNode(label, ScalarValueOf(ctype, v)))

\* StructureBuilder::nested: a null builder on a null pointer, else push_back
\* of a group node and a builder on &nodes_->back().children.  The new
\* builder is the last of bs.handles.  Through a dangling pointer no node is
\* appended and the builder returned points nowhere (position 0).
nested(bs, b, label, ub) ==
    LET st == bs.handles[b].st
        lg == [Logged(bs, b, "nested", label, <<>>) EXCEPT !.log = Append(@, <<>>)]
        at == Len(ListAt(bs.list, bs.handles[b].path).items) + 1
    IN  CASE st = "detached" ->
                 [lg EXCEPT !.handles = Append(@, [path |-> <<>>, st |-> "detached"])]
          [] st = "dangling" ->
                 [lg EXCEPT !.crashed = (ub = "crash"),
                            !.handles = Append(@, [path |-> Append(bs.handles[b].path, 0),
                                                   st |-> "dangling"])]
          [] st = "ok" ->
                 LET ap == AppendNode(lg, b, GroupNode(label))
                 IN  [ap EXCEPT !.handles = Append(@, [path |-> Append(bs.handles[b].path, at),
                                                       st |-> "ok"])]

\* StructureBuilder(nodes) on the vector l, and StructureBuilder(nullptr)
NewBuild(l) ==
    [list |-> l, handles |-> <<[path |-> <<>>, st |-> "ok"]>>, log |-> <<(<<>>)>>,
     crashed |-> FALSE]

\* A builder callback is a script: the calls it makes in order, each
\* [b, op, label, ctype, v] with b the builder it is made on: 1 the root
\* builder it was given, k + 1 the builder its k-th call of nested returned.
\* A call made after the process has ended is never made.
RECURSIVE RunScript(_, _, _)
RunScript(bs, script, ub) ==
    IF script = <<>> \/ bs.crashed THEN bs
    ELSE LET c == Head(script)
         IN  RunScript(IF c.op = "field"
                       THEN field(bs, c.b, c.label, c.ctype, c.v, ub)
                       ELSE nested(bs, c.b, c.label, ub),
                       Tail(script), ub)

\* the nodes of a vector without the capacities: what a reader of the tree sees
RECURSIVE Content(_)
Content(l) ==
    [i \in 1..Len(l.items) |->
        [label |-> l.items[i].label, value |-> l.items[i].value,
         children |-> Content(l.items[i].children)]]

\* Tab::Tab(id, title)
NewTab(id, title) ==
    [id |-> id, title |-> IF title = "" THEN id ELSE title,
     scalars |-> EmptyMap, graphs |-> EmptyMap, structures |-> EmptyMap]

\* a variant of update_value that keeps the alternative a key already holds
update_value_keepalt(t, key, ctype, v) ==
    IF key \in DOMAIN t.scalars
    THEN [t EXCEPT !.scalars = Put(t.scalars, key, [alt |-> t.scalars[key].alt,
                                                    v |-> ScalarValueOf(ctype, v).v])]
    ELSE [t EXCEPT !.scalars = Put(t.scalars, key, ScalarValueOf(ctype, v))]

\* Tab::update_value: scalars_[key] = value
update_value(t, key, ctype, v) ==
    [t EXCEPT !.scalars = Put(t.scalars, key, ScalarValueOf(ctype, v))]

\* Tab::get_scalar: std::nullopt is <<>>, a value x is <<x>>
get_scalar(t, key) ==
    IF key \in DOMAIN t.scalars THEN <<t.scalars[key]>> ELSE <<>>

\* Tab::get_graph_samples: empty for a key that has no graph
get_graph_samples(t, key) ==
    IF key \in DOMAIN t.graphs THEN samples(t.graphs[key]) ELSE <<>>

\* a variant of Tab::clear that leaves the structures in place
Tab_clear_keepstructures(t) == [t EXCEPT !.scalars = EmptyMap, !.graphs = EmptyMap]

\* Tab::clear: scalars_, graphs_ and structures_ are cleared
Tab_clear(t) ==
    [t EXCEPT !.scalars = EmptyMap, !.graphs = EmptyMap, !.structures = EmptyMap]

\* the StructureEntry that structures_[key] refers to: the stored one, or a
\* new one (label empty, no value, no children, has_content false)
EntryOf(t, key) ==
    IF key \in DOMAIN t.structures THEN t.structures[key]
    ELSE [root |-> GroupNode(""), has_content |-> FALSE]

\* no callback: the std::function is empty
NoBuilder == <<[op |-> "null"]>>

\* the build that Tab::update_structure runs: the children of the entry are
\* cleared, then the callback, if there is one, is called with a builder on them
StructureBuild(t, key, f, ub) ==
    LET start == NewBuild(vector_clear(EntryOf(t, key).root.children))
    IN  IF f # NoBuilder THEN RunScript(start, f, ub) ELSE start

\* Tab::update_structure: entry = structures_[key]; label = key; the value
\* is reset; has_content = !children.empty()
update_structure(t, key, f, ub) ==
    LET bs == StructureBuild(t, key, f, ub)
    IN  [t EXCEPT !.structures =
            Put(t.structures, key,
                [root |-> [label |-> key, value |-> <<>>, children |-> bs.list],
                 has_content |-> bs.list.items # <<>>])]

\* a variant of get_structure that returns the root of every entry there is
get_structure_anyentry(t, key) ==
    IF key \notin DOMAIN t.structures THEN <<>>
    ELSE LET r == t.structures[key].root
         IN  <<[label |-> r.label, value |-> r.value, children |-> Content(r.children)]>>

\* Tab::get_structure: std::nullopt is <<>>; the tree that is returned is
\* the root node as a reader sees it
get_structure(t, key) ==
    IF key \notin DOMAIN t.structures \/ ~t.structures[key].has_content THEN <<>>
    ELSE LET r == t.structures[key].root
         IN  <<[label |-> r.label, value |-> r.value, children |-> Content(r.children)]>>

\* a variant of ensure_graph that replaces a graph whose config differs
ensure_graph_reset(t, key, config) ==
    IF key \notin DOMAIN t.graphs \/ t.graphs[key].config # config
    THEN [t EXCEPT !.graphs = Put(t.graphs, key, NewGraph(config))]
    ELSE t

\* Tab::ensure_graph: try_emplace, then configure when any of the four
\* fields of the stored config differs from the requested one
ensure_graph(t, key, config) ==
    IF key \notin DOMAIN t.graphs
    THEN [t EXCEPT !.graphs = Put(t.graphs, key, NewGraph(config))]
    ELSE LET existing == t.graphs[key].config
         IN  IF \/ existing.max_samples # config.max_samples
                \/ existing.auto_scale # config.auto_scale
                \/ existing.manual_min # config.manual_min
                \/ existing.manual_max # config.manual_max
             THEN [t EXCEPT !.graphs[key] = configure(@, config)]
             ELSE t

\* Tab::push_graph_sample
push_graph_sample(t, key, sample, config) ==
    [ensure_graph(t, key, config) EXCEPT !.graphs[key] = push(@, sample)]

\* Tab::add_graph_samples
add_graph_samples(t, key, seq, config) ==
    [ensure_graph(t, key, config) EXCEPT !.graphs[key] = add_samples(@, seq)]

\* a variant of operator[] that gives an existing graph the default config
GraphCollection_index_reconfigure(t, key) ==
    IF key \in DOMAIN t.graphs
    THEN [t EXCEPT !.graphs[key] = configure(@, DefaultGraphConfig)]
    ELSE [t EXCEPT !.graphs = Put(t.graphs, key, NewGraph(DefaultGraphConfig))]

\* Tab::GraphCollection::operator[]: a missing graph is created with the
\* default config, an existing one is returned as it is
GraphCollection_index(t, key) ==
    IF key \in DOMAIN t.graphs THEN t
    ELSE [t EXCEPT !.graphs = Put(t.graphs, key, NewGraph(DefaultGraphConfig))]

(***************************************************************************)
(* DebugVisualizer, the store (debug_visualizer.cc:410-547, 697-784).  A   *)
(* call that returns a reference returns the position of the entity in its *)
(* sequence; a call that changes the store and returns a value is a record *)
(* [store, ret].                                                           *)
(***************************************************************************)
DefaultTabId == "overview"

\* the elements of seq but the i-th, in order
RemoveAt(seq, i) == SubSeq(seq, 1, i - 1) \o SubSeq(seq, i + 1, Len(seq))

\* find_tab_internal: the position of the first tab with this id, 0 for nullptr
find_tab_internal(s, id) ==
    IF \E i \in 1..Len(s.tabs) : s.tabs[i].id = id
    THEN CHOOSE i \in 1..Len(s.tabs) :
            /\ s.tabs[i].id = id
            /\ \A j \in 1..(i - 1) : s.tabs[j].id # id
    ELSE 0

\* find_window_tile: the position of the first tile with this id, 0 for nullptr
find_window_tile(s, id) ==
    IF \E i \in 1..Len(s.tiles) : s.tiles[i].id = id
    THEN CHOOSE i \in 1..Len(s.tiles) :
            /\ s.tiles[i].id = id
            /\ \A j \in 1..(i - 1) : s.tiles[j].id # id
    ELSE 0

\* a variant of set_title that assigns whatever it is given
set_title_any(t, title) == [t EXCEPT !.title = title]

\* Tab::set_title
set_title(t, title) == IF title # "" THEN [t EXCEPT !.title = title] ELSE t

\* a variant of ensure_tab that never looks for an existing tab
ensure_tab_dup(s, id, title) ==
    [store |-> [s EXCEPT !.tabs = Append(@, NewTab(id, IF title = "" THEN id ELSE title))],
     ret |-> Len(s.tabs) + 1]

\* DebugVisualizer::ensure_tab
ensure_tab(s, id, title) ==
    LET existing == find_tab_internal(s, id)
    IN  IF existing # 0
        THEN [store |-> IF title # ""
                        THEN [s EXCEPT !.tabs[existing] = set_title(@, title)]
                        ELSE s,
              ret |-> existing]
        ELSE [store |-> [s EXCEPT !.tabs = Append(@, NewTab(id, IF title = "" THEN id ELSE title))],
              ret |-> Len(s.tabs) + 1]

\* DebugVisualizer::add_tab(id): add_tab(id, id)
add_tab(s, id) == ensure_tab(s, id, id)

\* DebugVisualizer::default_tab
default_tab(s) == ensure_tab(s, DefaultTabId, "")

\* DebugVisualizer::DebugVisualizer()
NewStore ==
    add_tab([window_title |-> "Debug Window", visible |-> TRUE, tabs |-> <<>>, tiles |-> <<>>],
            DefaultTabId).store

\* a variant of remove_tab that does not single out the default tab
remove_tab_unguarded(s, id) ==
    LET it == find_tab_internal(s, id)
    IN  IF it = 0 THEN [store |-> s, ret |-> FALSE]
        ELSE [store |-> [s EXCEPT !.tabs = RemoveAt(@, it)], ret |-> TRUE]

\* a variant of remove_tab that erases the last tab when it has found the id
remove_tab_back(s, id) ==
    LET it == find_tab_internal(s, id)
    IN  IF id = DefaultTabId \/ it = 0 THEN [store |-> s, ret |-> FALSE]
        ELSE [store |-> [s EXCEPT !.tabs = SubSeq(@, 1, Len(@) - 1)], ret |-> TRUE]

\* DebugVisualizer::remove_tab
remove_tab(s, id) ==
    IF id = DefaultTabId THEN [store |-> s, ret |-> FALSE]
    ELSE LET it == find_tab_internal(s, id)
         IN  IF it = 0 THEN [store |-> s, ret |-> FALSE]
             ELSE [store |-> [s EXCEPT !.tabs = RemoveAt(@, it)], ret |-> TRUE]

\* DebugVisualizer::set_window_title
set_window_title(s, title) == [s EXCEPT !.window_title = title]

\* a variant of window_tile whose new tile starts as a copy of the tabs of
\* the store it is created in
window_tile_copy(s, id, title) ==
    LET existing == find_window_tile(s, id)
    IN  IF existing # 0
        THEN [store |-> IF title # "" /\ s.tiles[existing].visualizer.window_title # title
                        THEN [s EXCEPT !.tiles[existing].visualizer = set_window_title(@, title)]
                        ELSE s,
              ret |-> existing]
        ELSE LET visualizer == [s EXCEPT !.window_title = IF title = "" THEN id ELSE title,
                                         !.visible = TRUE, !.tiles = <<>>]
             IN  [store |-> [s EXCEPT !.tiles = Append(@, [id |-> id, visualizer |-> visualizer])],
                  ret |-> Len(s.tiles) + 1]

\* a variant of window_tile that puts a new tile in front of the others
window_tile_front(s, id, title) ==
    LET existing == find_window_tile(s, id)
    IN  IF existing # 0
        THEN [store |-> IF title # "" /\ s.tiles[existing].visualizer.window_title # title
                        THEN [s EXCEPT !.tiles[existing].visualizer = set_window_title(@, title)]
                        ELSE s,
              ret |-> existing]
        ELSE LET visualizer == [set_window_title(NewStore, IF title = "" THEN id ELSE title)
                                    EXCEPT !.visible = TRUE]
             IN  [store |-> [s EXCEPT !.tiles = <<[id |-> id, visualizer |-> visualizer]>> \o @],
                  ret |-> 1]

\* DebugVisualizer::window_tile(id, title)
window_tile(s, id, title) ==
    LET existing == find_window_tile(s, id)
    IN  IF existing # 0
        THEN [store |-> IF title # "" /\ s.tiles[existing].visualizer.window_title # title
                        THEN [s EXCEPT !.tiles[existing].visualizer = set_window_title(@, title)]
                        ELSE s,
              ret |-> existing]
        ELSE LET visualizer == [set_window_title(NewStore, IF title = "" THEN id ELSE title)
                                    EXCEPT !.visible = TRUE]
             IN  [store |-> [s EXCEPT !.tiles = Append(@, [id |-> id, visualizer |-> visualizer])],
                  ret |-> Len(s.tiles) + 1]

\* DebugVisualizer::window_tile(id): window_tile(id, id)
window_tile_byid(s, id) == window_tile(s, id, id)

\* a variant of remove_window_tile that erases the last tile when it has found the id
remove_window_tile_back(s, id) ==
    LET it == find_window_tile(s, id)
    IN  IF it = 0 THEN [store |-> s, ret |-> FALSE]
        ELSE [store |-> [s EXCEPT !.tiles = SubSeq(@, 1, Len(@) - 1)], ret |-> TRUE]

\* DebugVisualizer::remove_window_tile
remove_window_tile(s, id) ==
    LET it == find_window_tile(s, id)
    IN  IF it = 0 THEN [store |-> s, ret |-> FALSE]
        ELSE [store |-> [s EXCEPT !.tiles = RemoveAt(@, it)], ret |-> TRUE]

\* DebugVisualizer::tab_ids: the ids of tabs_ in the order of the vector
tab_ids(s) == [i \in 1..Len(s.tabs) |-> s.tabs[i].id]

\* DebugVisualizer::window_tile_ids: the ids of window_tiles_ in the order of the vector
window_tile_ids(s) == [i \in 1..Len(s.tiles) |-> s.tiles[i].id]

\* DebugVisualizer::clear: the contents of every tab, here and in every tile
RECURSIVE clear(_)
clear(s) ==
    [s EXCEPT !.tabs = [i \in 1..Len(s.tabs) |-> Tab_clear(s.tabs[i])],
              !.tiles = [i \in 1..Len(s.tiles) |->
                            [s.tiles[i] EXCEPT !.visualizer = clear(@)]]]

\* DebugVisualizer::update_value: default_tab().update_value(key, value)
store_update_value(s, key, ctype, v) ==
    LET d == default_tab(s)
    IN  [d.store EXCEPT !.tabs[d.ret] = update_value(@, key, ctype, v)]

\* a variant of the store's push_graph_sample that writes to the last tab
store_push_graph_sample_last(s, key, sample, config) ==
    LET d == default_tab(s)
    IN  [d.store EXCEPT !.tabs[Len(d.store.tabs)] = push_graph_sample(@, key, sample, config)]

\* DebugVisualizer::push_graph_sample: default_tab().push_graph_sample(key, sample, config)
store_push_graph_sample(s, key, sample, config) ==
    LET d == default_tab(s)
    IN  [d.store EXCEPT !.tabs[d.ret] = push_graph_sample(@, key, sample, config)]

\* DebugVisualizer::add_graph_samples: default_tab().add_graph_samples(key, samples, config)
store_add_graph_samples(s, key, seq, config) ==
    LET d == default_tab(s)
    IN  [d.store EXCEPT !.tabs[d.ret] = add_graph_samples(@, key, seq, config)]

\* DebugVisualizer::update_structure: default_tab().update_structure(key, builder)
store_update_structure(s, key, f, ub) ==
    LET d == default_tab(s)
    IN  [d.store EXCEPT !.tabs[d.ret] = update_structure(@, key, f, ub)]

\* DebugVisualizer::get_scalar, get_graph_samples, get_structure: the accessor
\* of the tab find_tab_internal(default_tab_id_) finds, nothing without one
store_get_scalar(s, key) ==
    LET d == find_tab_internal(s, DefaultTabId)
    IN  IF d # 0 THEN get_scalar(s.tabs[d], key) ELSE <<>>
store_get_graph_samples(s, key) ==
    LET d == find_tab_internal(s, DefaultTabId)
    IN  IF d # 0 THEN get_graph_samples(s.tabs[d], key) ELSE <<>>
store_get_structure(s, key) ==
    LET d == find_tab_internal(s, DefaultTabId)
    IN  IF d # 0 THEN get_structure(s.tabs[d], key) ELSE <<>>

\* a variant of tab_read that looks the key up with operator[], which
\* inserts a default value for a key that is missing
tab_read_index(t, getter, key) ==
    CASE getter = "get_scalar" ->
             [tab |-> IF key \in DOMAIN t.scalars THEN t
                      ELSE [t EXCEPT !.scalars = Put(@, key, [alt |-> "int64_t", v |-> "0"])],
              ret |-> get_scalar(t, key)]
      [] getter = "get_graph_samples" ->
             [tab |-> GraphCollection_index(t, key), ret |-> get_graph_samples(t, key)]
      [] getter = "get_structure" ->
             [tab |-> IF key \in DOMAIN t.structures THEN t
                      ELSE [t EXCEPT !.structures = Put(@, key, EntryOf(t, key))],
              ret |-> get_structure(t, key)]

\* a call of Tab::get_scalar, Tab::get_graph_samples or Tab::get_structure:
\* the tab after the call and what the call returns.  The three look the key
\* up with find, which inserts nothing.
tab_read(t, getter, key) ==
    CASE getter = "get_scalar" -> [tab |-> t, ret |-> get_scalar(t, key)]
      [] getter = "get_graph_samples" -> [tab |-> t, ret |-> get_graph_samples(t, key)]
      [] getter = "get_structure" -> [tab |-> t, ret |-> get_structure(t, key)]

\* a call of DebugVisualizer::get_scalar, get_graph_samples or get_structure:
\* that of the tab find_tab_internal(default_tab_id_) finds, absent without one
store_read(s, getter, key) ==
    LET d == find_tab_internal(s, DefaultTabId)
    IN  IF d # 0
        THEN [store |-> [s EXCEPT !.tabs[d] = tab_read(@, getter, key).tab],
              ret |-> tab_read(s.tabs[d], getter, key).ret]
        ELSE [store |-> s, ret |-> <<>>]

(***************************************************************************)
(* DebugVisualizerApp and its TileCollection (debug_visualizer_app.cc:     *)
(* 162-236, 291-316).  The objects that exist are a function from their    *)
(* addresses to [impl, owner]: impl is <<>> for a null impl_ and <<v>> for *)
(* an Impl whose visualizer is v; owner is Tiles.owner_, an address or 0   *)
(* for nullptr.  A reference that a call returns is [ref, at]: the tile at *)
(* position at of the visualizer of an app, or one of the static stores    *)
(* placeholder and dummy.                                                  *)
(***************************************************************************)
AppAddrs == {1, 2}

\* the objects o without the one at a, whose lifetime has ended
Destroyed(o, a) == [b \in (DOMAIN o) \ {a} |-> o[b]]

\* DebugVisualizerApp::DebugVisualizerApp(options): Tiles(this), impl_ a new Impl
NewApp(a) == [impl |-> <<NewStore>>, owner |-> a]

\* DebugVisualizerApp(DebugVisualizerApp&& other): Tiles(this),
\* impl_(std::move(other.impl_)), then the two reset_owner calls
app_move_construct(o, dst, src) ==
    Put([o EXCEPT ![src] = [@ EXCEPT !.impl = <<>>, !.owner = 0]],
        dst, [impl |-> o[src].impl, owner |-> dst])

\* a variant of the move assignment that leaves Tiles.owner_ of the
\* destination as it is
app_move_assign_noreset(o, dst, src) ==
    IF dst # src
    THEN [o EXCEPT ![dst] = [@ EXCEPT !.impl = o[src].impl],
                   ![src] = [@ EXCEPT !.impl = <<>>, !.owner = 0]]
    ELSE o

\* DebugVisualizerApp::operator=(DebugVisualizerApp&& other)
app_move_assign(o, dst, src) ==
    IF dst # src
    THEN [o EXCEPT ![dst] = [@ EXCEPT !.impl = o[src].impl, !.owner = dst],
                   ![src] = [@ EXCEPT !.impl = <<>>, !.owner = 0]]
    ELSE o

\* DebugVisualizerApp::ensure_tile: the static dummy without an Impl, else
\* impl_->visualizer.window_tile(id, title)
ensure_tile(o, a, id, title) ==
    IF o[a].impl = <<>>
    THEN [obj |-> o, ret |-> [ref |-> "dummy", at |-> 0]]
    ELSE LET r == window_tile(o[a].impl[1], id, title)
         IN  [obj |-> [o EXCEPT ![a].impl = <<r.store>>],
              ret |-> [ref |-> "tile", at |-> r.ret]]

\* DebugVisualizerApp::find_tile_internal: 0 for nullptr
find_tile_internal(o, a, id) ==
    IF o[a].impl = <<>> THEN 0 ELSE find_window_tile(o[a].impl[1], id)

\* TileCollection::operator[] and TileCollection::add of the Tiles member of
\* app a (operator[] passes no title): the static placeholder without an owner
Tiles_add(o, a, id, title) ==
    IF o[a].owner # 0 THEN ensure_tile(o, o[a].owner, id, title)
    ELSE [obj |-> o, ret |-> [ref |-> "placeholder", at |-> 0]]
Tiles_index(o, a, id) == Tiles_add(o, a, id, "")

\* TileCollection::contains, size and ids of the Tiles member of app a
Tiles_contains(o, a, id) ==
    o[a].owner # 0 /\ find_tile_internal(o, o[a].owner, id) # 0
Tiles_size(o, a) ==
    IF o[a].owner = 0 \/ o[o[a].owner].impl = <<>> THEN 0
    ELSE Len(window_tile_ids(o[o[a].owner].impl[1]))
Tiles_ids(o, a) ==
    IF o[a].owner = 0 \/ o[o[a].owner].impl = <<>> THEN <<>>
    ELSE window_tile_ids(o[o[a].owner].impl[1])

(***************************************************************************)
(* Graph objects and their proxy member x (debug_visualizer.cc:114-167).   *)
(* The objects that exist are a function from their addresses to           *)
(* [config, samples, latest, x], x the address in x.owner_.                *)
(***************************************************************************)
GraphAddrs == {1, 2}

\* Graph::Graph(config): x(this)
graph_construct(o, a, config) ==
    Put(o, a, [config |-> config, samples |-> <<>>, latest |-> 0, x |-> a])

\* a variant of the copy constructor that copies every member, x included
graph_copy_construct_memberwise(o, dst, src) ==
    Put(o, dst, o[src])

\* Graph::Graph(const Graph& other): x(this) and the three members copied
graph_copy_construct(o, dst, src) ==
    Put(o, dst, [config |-> o[src].config, samples |-> o[src].samples,
                 latest |-> o[src].latest, x |-> dst])

\* Graph::Graph(Graph&& other): x(this); the samples are taken from other,
\* whose vector is left empty, config and latest are copied
graph_move_construct(o, dst, src) ==
    Put([o EXCEPT ![src] = [@ EXCEPT !.samples = <<>>]],
        dst, [config |-> o[src].config, samples |-> o[src].samples,
              latest |-> o[src].latest, x |-> dst])

\* Graph::operator=(const Graph& other): nothing on self-assignment, else the
\* three members are copied and x.reset(this)
graph_copy_assign(o, dst, src) ==
    IF dst = src THEN o
    ELSE [o EXCEPT ![dst] = [@ EXCEPT !.config = o[src].config, !.samples = o[src].samples,
                                      !.latest = o[src].latest, !.x = dst]]

\* Graph::operator=(Graph&& other): as the copy assignment, and the vector
\* of other is left empty
graph_move_assign(o, dst, src) ==
    IF dst = src THEN o
    ELSE [o EXCEPT ![dst] = [@ EXCEPT !.config = o[src].config, !.samples = o[src].samples,
                                      !.latest = o[src].latest, !.x = dst],
                   ![src] = [@ EXCEPT !.samples = <<>>]]

\* AssignmentProxy::operator=(float) of the member x of the graph at a:
\* owner_->push(sample) when owner_ is not null
proxy_assign(o, a, sample) ==
    IF o[a].x # 0 THEN [o EXCEPT ![o[a].x] = push(@, sample)] ELSE o

\* AssignmentProxy::operator float(): owner_->latest(), 0.0f without an owner
proxy_float(o, a) == IF o[a].x # 0 THEN latest(o[o[a].x]) ELSE 0

\* no call of the data API has been made; the tab is visualizer.tabs["metrics"]
NoCall == [op |-> "none"]
\* two builders exist and no call has been made on them: StructureBuilder(&nodes)
\* on an empty vector and StructureBuilder(nullptr)
NewBuilders ==
    [NewBuild(EmptyList) EXCEPT !.handles = Append(@, [path |-> <<>>, st |-> "detached"]),
                                !.log = Append(@, <<>>)]
ApiIdle ==
    /\ call = NoCall
    /\ tab = NewTab("metrics", "")
    /\ build = NewBuilders
    /\ store = NewStore
    /\ gobj = EmptyMap
    /\ apps = EmptyMap


(***************************************************************************)
(* The background service (debug_visualizer_service.cc).                   *)
(*                                                                         *)
(* Client threads call StartBackgroundVisualizer, a post_* function or     *)
(* ShutdownBackgroundVisualizer; one of them may finally run the static    *)
(* destructor ~ServiceState.  Every access to shared state is one step;    *)
(* a lock_guard section that cannot block inside is one step guarded by    *)
(* the mutex being free.  EnsureThreadStarted holds the mutex over several *)
(* steps (it joins and spawns under the lock), so there the mutex is held  *)
(* explicitly.  Steps that touch only thread-local data are merged into    *)
(* the neighbouring step.                                                  *)
(***************************************************************************)
Clients == {"c1", "c2"}
Owners == {1, 2}                \* slots for ServiceThread instances; a joined slot is reused
NoThread == 0                   \* a std::thread that is not joinable

CmdIds == 1..MaxCmds
\* a closure posted by value / graph_sample / structure / clear_tab ...
Update(id) == [kind |-> "update", id |-> id]
\* the closure [](DebugVisualizerApp& app) { app.request_close(); }
RequestClose == [kind |-> "request_close", id |-> 0]

\* DebugVisualizerApp::request_close: asks the app's run loop to end
request_close(o) == [shouldClose EXCEPT ![o] = TRUE]

Live(o) == opc[o] \notin {"none", "done"}
LiveOwners == {o \in Owners : Live(o)}
\* the owner thread has been spawned and has not yet swapped the queue out
BeforeFirstSwap(o) == firstCycle[o] /\ opc[o] \in {"opts", "construct", "loop", "flush"}
InDestructor(p) == pc[p] \in {"d_enqueue", "d_join", "d_joining", "gone"}
Up == ~crashed /\ ~destroyed
\* an API call may begin: the process is up and static destruction has not begun
MayCall(p) == Up /\ pc[p] = "idle" /\ \A q \in Clients : ~InDestructor(q)

\* the ids of the update closures in a vector of commands, in order
RECURSIVE UpdateIds(_)
UpdateIds(q) ==
    IF q = <<>> THEN <<>>
    ELSE IF Head(q).kind = "update" THEN <<Head(q).id>> \o UpdateIds(Tail(q))
         ELSE UpdateIds(Tail(q))

HasClose(q) == \E i \in 1..Len(q) : q[i].kind = "request_close"
Range(q) == {q[i] : i \in 1..Len(q)}
Count(q, x) == Cardinality({i \in 1..Len(q) : q[i] = x})

\* static ServiceState state; (GetState, lines 61-64) with the member
\* initializers of lines 36-43: no thread, nothing pending, no call in progress
ServiceStopped ==
    /\ mutex = "free"
    /\ pending_updates = <<>>
    /\ thread = NoThread
    /\ thread_started = FALSE
    /\ running = FALSE
    /\ stop_requested = FALSE
    /\ opc = [o \in Owners |-> "none"]
    /\ shouldClose = [o \in Owners |-> FALSE]
    /\ updates = [o \in Owners |-> <<>>]
    /\ joiner = [o \in Owners |-> "none"]
    /\ pc = [p \in Clients |-> "idle"]
    /\ cmd = [p \in Clients |-> 0]
    /\ crashed = FALSE
    /\ throws = 0
    /\ destroyed = FALSE
    /\ nextId = 1
    /\ enqueued = {}
    /\ applied = <<>>
    /\ preShut = [p \in Clients |-> {}]
    /\ firstCycle = [o \in Owners |-> FALSE]
    /\ early = {}

\* no graph is in use
GraphIdle ==
    /\ graph = NewGraph(DefaultGraphConfig)
    /\ pushed = <<>>
    /\ capChanged = FALSE

InitService == GraphIdle /\ ApiIdle /\ ServiceStopped

(***************************************************************************)
(* std::thread::join() on state.thread.  Two threads inside join() on the  *)
(* same std::thread is a data race: the second pthread_join fails and      *)
(* std::system_error is thrown.  It either ends the process (uncaught) or  *)
(* unwinds the API call to a caller that catches it, releasing the         *)
(* lock_guard.                                                             *)
(***************************************************************************)
Unwind(p) ==
    /\ \/ /\ crashed' = TRUE
          /\ UNCHANGED <<pc, cmd, mutex, preShut, throws>>
       \/ /\ throws < MaxThrows
          /\ throws' = throws + 1
          /\ pc' = [pc EXCEPT ![p] = "idle"]
          /\ cmd' = [cmd EXCEPT ![p] = 0]
          /\ preShut' = [preShut EXCEPT ![p] = {}]
          /\ mutex' = IF mutex = p THEN "free" ELSE mutex
          /\ UNCHANGED crashed
    /\ UNCHANGED <<thread, joiner, opc>>

\* a variant that never joins: the thread is taken for not joinable
JoinBegin_skip(p, joining, skipped) ==
    /\ pc' = [pc EXCEPT ![p] = skipped]
    /\ UNCHANGED <<thread, joiner, opc, crashed, throws, mutex, cmd, preShut>>

\* if (state.thread.joinable()) state.thread.join();   -- entering join()
JoinBegin(p, joining, skipped) ==
    IF thread = NoThread
    THEN /\ pc' = [pc EXCEPT ![p] = skipped]
         /\ UNCHANGED <<thread, joiner, opc, crashed, throws, mutex, cmd, preShut>>
    ELSE IF joiner[thread] # "none"
         THEN Unwind(p)
         ELSE /\ joiner' = [joiner EXCEPT ![thread] = p]
              /\ pc' = [pc EXCEPT ![p] = joining]
              /\ UNCHANGED <<thread, opc, crashed, throws, mutex, cmd, preShut>>

\* join() returns once the thread has ended; the std::thread is then not joinable
JoinEnd(p, next) ==
    \E o \in Owners :
        /\ joiner[o] = p
        /\ opc[o] = "done"
        /\ joiner' = [joiner EXCEPT ![o] = "none"]
        /\ opc' = [opc EXCEPT ![o] = "none"]
        /\ thread' = NoThread
        /\ pc' = [pc EXCEPT ![p] = next]

\* where a call of EnsureThreadStarted returns to: PostUpdate goes on to
\* EnqueueUpdate, StartBackgroundVisualizer returns
AfterEnsure(p) == IF cmd[p] # 0 THEN "enqueue" ELSE "idle"

(***************************************************************************)
(* StartBackgroundVisualizer(options), lines 164-171.                      *)
(***************************************************************************)
\* lines 166-169: state.options = options, under the mutex
Start_SetOptions(p) ==
    /\ MayCall(p)
    /\ mutex = "free"
    /\ pc' = [pc EXCEPT ![p] = "ets_check"]
    /\ UNCHANGED <<nonServiceVars, stateVars, ownerVars, cmd, procVars, histVars>>

(***************************************************************************)
(* PostUpdate(update), lines 141-144: a post_* function creates its        *)
(* closure and calls EnsureThreadStarted, then EnqueueUpdate.  The step is *)
(* the call's first access to shared state, the check of line 117.         *)
(***************************************************************************)
Post_Begin(p) ==
    /\ MayCall(p)
    /\ nextId <= MaxCmds
    /\ cmd' = [cmd EXCEPT ![p] = nextId]
    /\ nextId' = nextId + 1
    /\ pc' = [pc EXCEPT ![p] = IF thread_started THEN "enqueue" ELSE "ets_lock"]
    /\ UNCHANGED <<nonServiceVars, stateVars, ownerVars, procVars, enqueued, applied, preShut,
                   firstCycle, early>>

(***************************************************************************)
(* EnsureThreadStarted, lines 115-133.                                     *)
(***************************************************************************)
\* line 117: first check, without the lock (in StartBackgroundVisualizer)
ETS_Check(p) ==
    /\ Up /\ pc[p] = "ets_check"
    /\ pc' = [pc EXCEPT ![p] = IF thread_started THEN AfterEnsure(p) ELSE "ets_lock"]
    /\ UNCHANGED <<nonServiceVars, stateVars, ownerVars, cmd, procVars, histVars>>

\* a variant without the second check of thread_started under the lock
ETS_Lock_unchecked(p) ==
    /\ Up /\ pc[p] = "ets_lock"
    /\ mutex = "free"
    /\ pc' = [pc EXCEPT ![p] = "ets_join"]
    /\ mutex' = p
    /\ UNCHANGED <<nonServiceVars, pending_updates, thread, thread_started, running, stop_requested,
                   ownerVars, cmd, procVars, histVars>>

\* lines 121-124: lock, second check
ETS_Lock(p) ==
    /\ Up /\ pc[p] = "ets_lock"
    /\ mutex = "free"
    /\ IF thread_started
       THEN /\ pc' = [pc EXCEPT ![p] = AfterEnsure(p)]
            /\ UNCHANGED mutex
       ELSE /\ pc' = [pc EXCEPT ![p] = "ets_join"]
            /\ mutex' = p
    /\ UNCHANGED <<nonServiceVars, pending_updates, thread, thread_started, running, stop_requested,
                   ownerVars, cmd, procVars, histVars>>

\* lines 126-128: join the previous owner thread, holding the mutex
ETS_Join(p) ==
    /\ Up /\ pc[p] = "ets_join"
    /\ JoinBegin(p, "ets_joining", "ets_stop")
    /\ UNCHANGED <<nonServiceVars, pending_updates, thread_started, running, stop_requested,
                   shouldClose, updates, destroyed, nextId, enqueued, applied,
                   firstCycle, early>>

ETS_Joined(p) ==
    /\ Up /\ pc[p] = "ets_joining"
    /\ JoinEnd(p, "ets_stop")
    /\ UNCHANGED <<nonServiceVars, mutex, pending_updates, thread_started, running, stop_requested,
                   shouldClose, updates, cmd, procVars, histVars>>

\* line 130
ETS_ResetStop(p) ==
    /\ Up /\ pc[p] = "ets_stop"
    /\ stop_requested' = FALSE
    /\ pc' = [pc EXCEPT ![p] = "ets_spawn"]
    /\ UNCHANGED <<nonServiceVars, mutex, pending_updates, thread, thread_started, running,
                   ownerVars, cmd, procVars, histVars>>

\* line 131: state.thread = std::thread(ServiceThread); move-assigning to a
\* joinable std::thread calls std::terminate
ETS_Spawn(p) ==
    /\ Up /\ pc[p] = "ets_spawn"
    /\ \E o \in Owners :
        /\ opc[o] = "none"
        /\ \A o2 \in Owners : opc[o2] = "none" => o <= o2
        /\ opc' = [opc EXCEPT ![o] = "opts"]
        /\ shouldClose' = [shouldClose EXCEPT ![o] = FALSE]
        /\ updates' = [updates EXCEPT ![o] = <<>>]
        /\ firstCycle' = [firstCycle EXCEPT ![o] = TRUE]
        /\ early' = {}
        /\ crashed' = (thread # NoThread)
        /\ thread' = o
    /\ pc' = [pc EXCEPT ![p] = "ets_started"]
    /\ UNCHANGED <<nonServiceVars, mutex, pending_updates, thread_started, running, stop_requested,
                   joiner, cmd, throws, destroyed, nextId, enqueued, applied, preShut>>

\* lines 132-133: thread_started = true, the lock_guard releases the mutex
ETS_SetStarted(p) ==
    /\ Up /\ pc[p] = "ets_started"
    /\ thread_started' = TRUE
    /\ mutex' = "free"
    /\ pc' = [pc EXCEPT ![p] = AfterEnsure(p)]
    /\ UNCHANGED <<nonServiceVars, pending_updates, thread, running, stop_requested,
                   ownerVars, cmd, procVars, histVars>>

(***************************************************************************)
(* EnqueueUpdate, lines 135-139; the post_* call returns.                  *)
(***************************************************************************)
\* a variant of EnqueueUpdate that puts the closure at the front of the queue
EnqueueUpdate_front(p) ==
    /\ Up /\ pc[p] = "enqueue"
    /\ mutex = "free"
    /\ pending_updates' = <<Update(cmd[p])>> \o pending_updates
    /\ enqueued' = enqueued \cup {cmd[p]}
    /\ early' = IF \E o \in Owners : BeforeFirstSwap(o)
                THEN early \cup {cmd[p]} ELSE early
    /\ cmd' = [cmd EXCEPT ![p] = 0]
    /\ pc' = [pc EXCEPT ![p] = "idle"]
    /\ UNCHANGED <<nonServiceVars, mutex, thread, thread_started, running, stop_requested,
                   ownerVars, procVars, nextId, applied, preShut, firstCycle>>

EnqueueUpdate(p) ==
    /\ Up /\ pc[p] = "enqueue"
    /\ mutex = "free"
    /\ pending_updates' = Append(pending_updates, Update(cmd[p]))
    /\ enqueued' = enqueued \cup {cmd[p]}
    /\ early' = IF \E o \in Owners : BeforeFirstSwap(o)
                THEN early \cup {cmd[p]} ELSE early
    /\ cmd' = [cmd EXCEPT ![p] = 0]
    /\ pc' = [pc EXCEPT ![p] = "idle"]
    /\ UNCHANGED <<nonServiceVars, mutex, thread, thread_started, running, stop_requested,
                   ownerVars, procVars, nextId, applied, preShut, firstCycle>>

(***************************************************************************)
(* ShutdownBackgroundVisualizer, lines 173-195.  Nothing here but the two  *)
(* queue accesses happens under the mutex.                                 *)
(***************************************************************************)
\* line 175: the call begins; it returns at once when no thread was started
Shutdown_Check(p) ==
    /\ MayCall(p)
    /\ IF thread_started
       THEN /\ pc' = [pc EXCEPT ![p] = "sh_stop"]
            /\ preShut' = [preShut EXCEPT ![p] = enqueued]
       ELSE UNCHANGED <<pc, preShut>>
    /\ UNCHANGED <<nonServiceVars, stateVars, ownerVars, cmd, procVars, nextId, enqueued, applied,
                   firstCycle, early>>

\* line 179
Shutdown_SetStop(p) ==
    /\ Up /\ pc[p] = "sh_stop"
    /\ stop_requested' = TRUE
    /\ pc' = [pc EXCEPT ![p] = "sh_enqueue"]
    /\ UNCHANGED <<nonServiceVars, mutex, pending_updates, thread, thread_started, running,
                   ownerVars, cmd, procVars, histVars>>

\* lines 180-182: EnqueueUpdate(request close)
Shutdown_Enqueue(p) ==
    /\ Up /\ pc[p] = "sh_enqueue"
    /\ mutex = "free"
    /\ pending_updates' = Append(pending_updates, RequestClose)
    /\ pc' = [pc EXCEPT ![p] = "sh_join"]
    /\ UNCHANGED <<nonServiceVars, mutex, thread, thread_started, running, stop_requested,
                   ownerVars, cmd, procVars, histVars>>

\* lines 184-185
Shutdown_Join(p) ==
    /\ Up /\ pc[p] = "sh_join"
    /\ JoinBegin(p, "sh_joining", "sh_flags")
    /\ UNCHANGED <<nonServiceVars, pending_updates, thread_started, running, stop_requested,
                   shouldClose, updates, destroyed, nextId, enqueued, applied,
                   firstCycle, early>>

Shutdown_Joined(p) ==
    /\ Up /\ pc[p] = "sh_joining"
    /\ JoinEnd(p, "sh_thread")
    /\ UNCHANGED <<nonServiceVars, mutex, pending_updates, thread_started, running, stop_requested,
                   shouldClose, updates, cmd, procVars, histVars>>

\* line 186: state.thread = std::thread(); std::terminate when state.thread
\* has meanwhile been assigned a new, joinable thread
Shutdown_ResetThread(p) ==
    /\ Up /\ pc[p] = "sh_thread"
    /\ crashed' = (thread # NoThread)
    /\ pc' = [pc EXCEPT ![p] = "sh_flags"]
    /\ UNCHANGED <<nonServiceVars, stateVars, ownerVars, cmd, throws, destroyed, histVars>>

\* lines 189-190
Shutdown_ClearFlags(p) ==
    /\ Up /\ pc[p] = "sh_flags"
    /\ thread_started' = FALSE
    /\ running' = FALSE
    /\ pc' = [pc EXCEPT ![p] = "sh_clear"]
    /\ UNCHANGED <<nonServiceVars, mutex, pending_updates, thread, stop_requested,
                   ownerVars, cmd, procVars, histVars>>

\* lines 191-194; the call returns
Shutdown_ClearPending(p) ==
    /\ Up /\ pc[p] = "sh_clear"
    /\ mutex = "free"
    /\ pending_updates' = <<>>
    /\ preShut' = [preShut EXCEPT ![p] = {}]
    /\ pc' = [pc EXCEPT ![p] = "idle"]
    /\ UNCHANGED <<nonServiceVars, mutex, thread, thread_started, running, stop_requested,
                   ownerVars, cmd, procVars, nextId, enqueued, applied, firstCycle, early>>

(***************************************************************************)
(* ServiceState::~ServiceState, lines 47-58: the destructor of the         *)
(* function-local static, run once at process exit when no API call is in  *)
(* progress; no API call begins afterwards.                                *)
(***************************************************************************)
\* line 48
Dtor_SetStop(p) ==
    /\ Up /\ \A q \in Clients : pc[q] = "idle"
    /\ stop_requested' = TRUE
    /\ pc' = [pc EXCEPT ![p] = "d_enqueue"]
    /\ UNCHANGED <<nonServiceVars, mutex, pending_updates, thread, thread_started, running,
                   ownerVars, cmd, procVars, histVars>>

\* lines 49-54
Dtor_Enqueue(p) ==
    /\ Up /\ pc[p] = "d_enqueue"
    /\ IF thread_started
       THEN /\ mutex = "free"
            /\ pending_updates' = Append(pending_updates, RequestClose)
       ELSE UNCHANGED pending_updates
    /\ pc' = [pc EXCEPT ![p] = "d_join"]
    /\ UNCHANGED <<nonServiceVars, mutex, thread, thread_started, running, stop_requested,
                   ownerVars, cmd, procVars, histVars>>

\* a variant that returns without joining the owner thread
Dtor_Join_nojoin(p) ==
    /\ Up /\ pc[p] = "d_join"
    /\ pc' = [pc EXCEPT ![p] = "gone"]
    /\ destroyed' = TRUE
    /\ UNCHANGED <<nonServiceVars, stateVars, ownerVars, cmd, crashed, throws, histVars>>

\* lines 55-57: join; when the thread is not joinable the destructor returns
Dtor_Join(p) ==
    /\ Up /\ pc[p] = "d_join"
    /\ JoinBegin(p, "d_joining", "gone")
    /\ destroyed' = (thread = NoThread)
    /\ UNCHANGED <<nonServiceVars, pending_updates, thread_started, running, stop_requested,
                   shouldClose, updates, nextId, enqueued, applied, firstCycle, early>>

\* line 56 returns, line 58: the destructor returns
Dtor_Joined(p) ==
    /\ Up /\ pc[p] = "d_joining"
    /\ JoinEnd(p, "gone")
    /\ destroyed' = TRUE
    /\ UNCHANGED <<nonServiceVars, mutex, pending_updates, thread_started, running, stop_requested,
                   shouldClose, updates, cmd, crashed, throws, histVars>>

(***************************************************************************)
(* ServiceThread, lines 84-113, with DebugVisualizerApp::run               *)
(* (debug_visualizer_app.cc:238-289) and FlushUpdates, lines 66-76.        *)
(* env is the set of choices the environment has: in {FALSE} the window    *)
(* system always starts and the user never closes the window.              *)
(***************************************************************************)
\* lines 87-91: copy state.options under the mutex
Owner_ReadOptions(o) ==
    /\ Up /\ opc[o] = "opts"
    /\ mutex = "free"
    /\ opc' = [opc EXCEPT ![o] = "construct"]
    /\ UNCHANGED <<nonServiceVars, stateVars, shouldClose, updates, joiner, clientVars, procVars, histVars>>

\* lines 93-94: construct the app, running = true; then line 104, app.run:
\* Initialize() (app.cc:243-246) succeeds, or fails and run returns at once
Owner_Construct(o, env) ==
    /\ Up /\ opc[o] = "construct"
    /\ running' = TRUE
    /\ \E fails \in env : opc' = [opc EXCEPT ![o] = IF fails THEN "returned" ELSE "loop"]
    /\ UNCHANGED <<nonServiceVars, mutex, pending_updates, thread, thread_started, stop_requested,
                   shouldClose, updates, joiner, clientVars, procVars, histVars>>

\* app.cc:249-250 and lines 96-99: the window is not closing, events are polled
\* (the user may close the window), the frame callback reads stop_requested
Owner_Frame(o, env) ==
    /\ Up /\ opc[o] = "loop" /\ ~shouldClose[o]
    /\ \E userCloses \in (IF stop_requested THEN {FALSE} ELSE env) :
        shouldClose' = IF stop_requested \/ userCloses THEN request_close(o) ELSE shouldClose
    /\ opc' = [opc EXCEPT ![o] = "flush"]
    /\ UNCHANGED <<nonServiceVars, stateVars, updates, joiner, clientVars, procVars, histVars>>

\* a variant of the drain that copies the pending queue and leaves it filled
FlushUpdates_Swap_copy(o) ==
    /\ Up /\ opc[o] = "flush"
    /\ mutex = "free"
    /\ updates' = [updates EXCEPT ![o] = pending_updates]
    /\ opc' = [opc EXCEPT ![o] = "apply"]
    /\ UNCHANGED <<nonServiceVars, mutex, pending_updates, thread, thread_started, running,
                   stop_requested, shouldClose, joiner, clientVars, procVars, histVars>>

\* lines 100-101 and 66-72: swap the pending queue out under the mutex
FlushUpdates_Swap(o) ==
    /\ Up /\ opc[o] = "flush"
    /\ mutex = "free"
    /\ updates' = [updates EXCEPT ![o] = pending_updates]
    /\ pending_updates' = <<>>
    /\ opc' = [opc EXCEPT ![o] = "apply"]
    /\ UNCHANGED <<nonServiceVars, mutex, thread, thread_started, running, stop_requested,
                   shouldClose, joiner, clientVars, procVars, histVars>>

\* lines 73-75: apply the swapped-out commands in order, outside the mutex;
\* then the frame is rendered (app.cc:270-284)
FlushUpdates_Apply(o) ==
    /\ Up /\ opc[o] = "apply"
    /\ applied' = applied \o UpdateIds(updates[o])
    /\ shouldClose' = IF HasClose(updates[o]) THEN request_close(o) ELSE shouldClose
    /\ updates' = [updates EXCEPT ![o] = <<>>]
    /\ firstCycle' = [firstCycle EXCEPT ![o] = FALSE]
    /\ early' = IF firstCycle[o] THEN {} ELSE early
    /\ opc' = [opc EXCEPT ![o] = "loop"]
    /\ UNCHANGED <<nonServiceVars, stateVars, joiner, clientVars, procVars, nextId, enqueued,
                   preShut>>

\* app.cc:249, 287-288: the window is closing, run returns; line 106
Owner_ClearRunning(o) ==
    /\ Up
    /\ \/ opc[o] = "returned"
       \/ opc[o] = "loop" /\ shouldClose[o]
    /\ running' = FALSE
    /\ opc' = [opc EXCEPT ![o] = "exit_started"]
    /\ firstCycle' = [firstCycle EXCEPT ![o] = FALSE]
    /\ early' = IF firstCycle[o] THEN {} ELSE early
    /\ UNCHANGED <<nonServiceVars, mutex, pending_updates, thread, thread_started, stop_requested,
                   shouldClose, updates, joiner, clientVars, procVars, nextId, enqueued,
                   applied, preShut>>

\* line 107
Owner_ClearStarted(o) ==
    /\ Up /\ opc[o] = "exit_started"
    /\ thread_started' = FALSE
    /\ opc' = [opc EXCEPT ![o] = "exit_clear"]
    /\ UNCHANGED <<nonServiceVars, mutex, pending_updates, thread, running, stop_requested,
                   shouldClose, updates, joiner, clientVars, procVars, histVars>>

\* lines 108-111
Owner_ClearPending(o) ==
    /\ Up /\ opc[o] = "exit_clear"
    /\ mutex = "free"
    /\ pending_updates' = <<>>
    /\ opc' = [opc EXCEPT ![o] = "exit_stop"]
    /\ UNCHANGED <<nonServiceVars, mutex, thread, thread_started, running, stop_requested,
                   shouldClose, updates, joiner, clientVars, procVars, histVars>>

\* line 112; the thread function returns and the thread ends
Owner_ResetStop(o) ==
    /\ Up /\ opc[o] = "exit_stop"
    /\ stop_requested' = FALSE
    /\ opc' = [opc EXCEPT ![o] = "done"]
    /\ UNCHANGED <<nonServiceVars, mutex, pending_updates, thread, thread_started, running,
                   shouldClose, updates, joiner, clientVars, procVars, histVars>>

(***************************************************************************)
(* A command that posts: the builder passed to structure() runs inside the *)
(* closure, on the owner thread (lines 269-276), and may itself call a     *)
(* post_* function.  PostUpdate (lines 141-144) then runs on the owner     *)
(* thread, between the swap and the end of the apply loop of FlushUpdates. *)
(* Closures posted this way carry a negative id.                           *)
(***************************************************************************)
Nested(id) == [kind |-> "update", id |-> 0 - id]
NestedIds(q) == {q[i].id : i \in {j \in 1..Len(q) : q[j].id < 0}}
Applying(o) == opc[o] \in {"apply", "n_enqueue", "n_lock", "n_join"}

\* line 117 on the owner thread: the first check of thread_started
Nested_Post(o) ==
    /\ Up /\ opc[o] = "apply"
    /\ UpdateIds(updates[o]) # <<>>
    /\ nextId <= MaxCmds
    /\ opc' = [opc EXCEPT ![o] = IF thread_started THEN "n_enqueue" ELSE "n_lock"]
    /\ UNCHANGED <<nonServiceVars, stateVars, shouldClose, updates, joiner, clientVars, procVars,
                   histVars>>

\* lines 121-124 on the owner thread: lock, second check
Nested_Lock(o) ==
    /\ Up /\ opc[o] = "n_lock"
    /\ mutex = "free"
    /\ IF thread_started
       THEN /\ opc' = [opc EXCEPT ![o] = "n_enqueue"]
            /\ UNCHANGED mutex
       ELSE /\ opc' = [opc EXCEPT ![o] = "n_join"]
            /\ mutex' = "owner"
    /\ UNCHANGED <<nonServiceVars, pending_updates, thread, thread_started, running, stop_requested,
                   shouldClose, updates, joiner, clientVars, procVars, histVars>>

\* lines 126-128 on the owner thread: state.thread is the calling thread
\* itself, join() throws std::system_error (resource_deadlock_would_occur).
\* The exception ends the process, or the builder catches it: the lock_guard
\* is released and nothing was enqueued.
Nested_Join(o) ==
    /\ Up /\ opc[o] = "n_join"
    /\ thread = o
    /\ \/ /\ crashed' = TRUE
          /\ UNCHANGED <<mutex, opc, throws>>
       \/ /\ throws < MaxThrows
          /\ throws' = throws + 1
          /\ mutex' = "free"
          /\ opc' = [opc EXCEPT ![o] = "apply"]
          /\ UNCHANGED crashed
    /\ UNCHANGED <<nonServiceVars, pending_updates, thread, thread_started, running, stop_requested,
                   shouldClose, updates, joiner, clientVars, destroyed, histVars>>

\* lines 135-139 on the owner thread: the closure is appended to the pending
\* queue under the mutex; the post_* call returns into the builder
Nested_Enqueue(o) ==
    /\ Up /\ opc[o] = "n_enqueue"
    /\ mutex = "free"
    /\ pending_updates' = Append(pending_updates, Nested(nextId))
    /\ nextId' = nextId + 1
    /\ opc' = [opc EXCEPT ![o] = "apply"]
    /\ UNCHANGED <<nonServiceVars, mutex, thread, thread_started, running, stop_requested,
                   shouldClose, updates, joiner, clientVars, procVars, enqueued, applied, preShut,
                   firstCycle, early>>

NestedStep(o) ==
    \/ Nested_Post(o)
    \/ Nested_Lock(o)
    \/ Nested_Join(o)
    \/ Nested_Enqueue(o)

(***************************************************************************)
(* The service specifications.                                             *)
(***************************************************************************)
ClientStep(p) ==
    \/ Start_SetOptions(p)
    \/ Post_Begin(p)
    \/ ETS_Check(p)
    \/ ETS_Lock(p)
    \/ ETS_Join(p)
    \/ ETS_Joined(p)
    \/ ETS_ResetStop(p)
    \/ ETS_Spawn(p)
    \/ ETS_SetStarted(p)
    \/ EnqueueUpdate(p)
    \/ Shutdown_Check(p)
    \/ Shutdown_SetStop(p)
    \/ Shutdown_Enqueue(p)
    \/ Shutdown_Join(p)
    \/ Shutdown_Joined(p)
    \/ Shutdown_ResetThread(p)
    \/ Shutdown_ClearFlags(p)
    \/ Shutdown_ClearPending(p)

DestructorStep(p) ==
    \/ Dtor_SetStop(p)
    \/ Dtor_Enqueue(p)
    \/ Dtor_Join(p)
    \/ Dtor_Joined(p)

OwnerStep(o, env) ==
    \/ Owner_ReadOptions(o)
    \/ Owner_Construct(o, env)
    \/ Owner_Frame(o, env)
    \/ FlushUpdates_Swap(o)
    \/ FlushUpdates_Apply(o)
    \/ Owner_ClearRunning(o)
    \/ Owner_ClearStarted(o)
    \/ Owner_ClearPending(o)
    \/ Owner_ResetStop(o)

\* every client call, the destructor, and an environment that may fail to
\* open the window or close it at any frame
NextService ==
    \/ \E p \in Clients : ClientStep(p)
    \/ \E p \in Clients : DestructorStep(p)
    \/ \E o \in Owners : OwnerStep(o, BOOLEAN)

SpecService == InitService /\ [][NextService]_vars

\* the same without environment events and without process exit: the owner
\* thread ends only on request
NextServiceQuiet ==
    \/ \E p \in Clients : ClientStep(p)
    \/ \E o \in Owners : OwnerStep(o, {FALSE})

SpecServiceQuiet == InitService /\ [][NextServiceQuiet]_vars

\* the quiet service with commands that post from the owner thread
NextServiceNested ==
    \/ \E p \in Clients : ClientStep(p)
    \/ \E o \in Owners : OwnerStep(o, {FALSE})
    \/ \E o \in Owners : NestedStep(o)

SpecServiceNested == InitService /\ [][NextServiceNested]_vars

(***************************************************************************)
(* The graph specification: one Graph constructed with some config, then   *)
(* any sequence of push, add_samples and configure calls.                  *)
(***************************************************************************)
InitGraph ==
    /\ \E config \in Configs : graph = NewGraph(config)
    /\ pushed = <<>>
    /\ capChanged = FALSE
    /\ ApiIdle
    /\ ServiceStopped

\* graph.push(sample)
DoPush ==
    /\ Len(pushed) < MaxPushed
    /\ \E sample \in SampleValues :
        /\ graph' = push(graph, sample)
        /\ pushed' = Append(pushed, sample)
    /\ UNCHANGED <<capChanged, serviceVars, apiVars>>

\* graph.add_samples(seq)
DoAddSamples ==
    /\ \E seq \in SeqsUpTo(SampleValues, MaxBatch) :
        /\ Len(pushed) + Len(seq) <= MaxPushed
        /\ graph' = add_samples(graph, seq)
        /\ pushed' = pushed \o seq
    /\ UNCHANGED <<capChanged, serviceVars, apiVars>>

\* graph.configure(config)
DoConfigure ==
    /\ \E config \in Configs :
        /\ graph' = configure(graph, config)
        /\ capChanged' = (capChanged \/ config.max_samples # graph.config.max_samples)
    /\ UNCHANGED <<pushed, serviceVars, apiVars>>

NextGraph == DoPush \/ DoAddSamples \/ DoConfigure

SpecGraph == InitGraph /\ [][NextGraph]_vars

(***************************************************************************)
(* The graph under single observed calls: the same calls as SpecGraph,     *)
(* each recorded in call with the graph it was applied to.                 *)
(***************************************************************************)
CallSamples == {58, 59, 60}

\* graph.push(sample)
CallPush ==
    /\ Len(pushed) < MaxPushed
    /\ \E sample \in CallSamples :
        /\ call' = [op |-> "push", before |-> graph, arg |-> sample]
        /\ graph' = push(graph, sample)
        /\ pushed' = Append(pushed, sample)
    /\ UNCHANGED <<capChanged, serviceVars, objVars, tab, build, store>>

\* graph.add_samples(seq)
CallAddSamples ==
    /\ \E seq \in SeqsUpTo(CallSamples, MaxBatch) :
        /\ Len(pushed) + Len(seq) <= MaxPushed
        /\ call' = [op |-> "add_samples", before |-> graph, arg |-> seq]
        /\ graph' = add_samples(graph, seq)
        /\ pushed' = pushed \o seq
    /\ UNCHANGED <<capChanged, serviceVars, objVars, tab, build, store>>

\* graph.configure(config)
CallConfigure ==
    /\ \E config \in Configs :
        /\ call' = [op |-> "configure", before |-> graph, arg |-> config]
        /\ graph' = configure(graph, config)
        /\ capChanged' = (capChanged \/ config.max_samples # graph.config.max_samples)
    /\ UNCHANGED <<pushed, serviceVars, objVars, tab, build, store>>

NextGraphCall == CallPush \/ CallAddSamples \/ CallConfigure

SpecGraphCall == InitGraph /\ [][NextGraphCall]_vars

(***************************************************************************)
(* One tab under single observed calls.  SpecTabScalars: update_value with *)
(* each of the seven overloads, and clear.  SpecTabGraphs: the calls that  *)
(* create, reconfigure and fill the graphs of the tab, and clear.          *)
(***************************************************************************)
Keys == {"score", "state"}
ScalarInputs ==
    {[ctype |-> "int", v |-> "42"], [ctype |-> "int", v |-> "-7"],
     [ctype |-> "int64_t", v |-> "42"],
     [ctype |-> "float", v |-> "0.5f"], [ctype |-> "float", v |-> "-2.0f"],
     [ctype |-> "double", v |-> "0.95"], [ctype |-> "double", v |-> "0.5"],
     [ctype |-> "bool", v |-> "true"], [ctype |-> "bool", v |-> "false"],
     [ctype |-> "std::string", v |-> "searching"],
     [ctype |-> "const char*", v |-> "searching"], [ctype |-> "const char*", v |-> ""]}

GraphKeys == {"fps", "threat"}
TabSamples == {58, 59}
\* every capacity with auto scaling, and one config that differs from another
\* only in auto_scale
TabConfigs ==
    {GraphConfig(n, TRUE) : n \in (0..MaxTabCap) \cup {DefaultMaxSamples}}
        \cup {GraphConfig(MaxTabCap, FALSE)}

InitTab ==
    /\ GraphIdle
    /\ ApiIdle
    /\ ServiceStopped

\* tab.update_value(key, v)
Tab_UpdateValue ==
    /\ \E key \in Keys, in \in ScalarInputs :
        /\ call' = [op |-> "update_value", before |-> tab, key |-> key, in |-> in]
        /\ tab' = update_value(tab, key, in.ctype, in.v)
    /\ UNCHANGED <<graphVars, serviceVars, objVars, build, store>>

\* tab.clear()
Tab_Clear ==
    /\ ~crashed
    /\ call' = [op |-> "clear", before |-> tab]
    /\ tab' = Tab_clear(tab)
    /\ UNCHANGED <<graphVars, serviceVars, objVars, build, store>>

NextTabScalars == Tab_UpdateValue \/ Tab_Clear

SpecTabScalars == InitTab /\ [][NextTabScalars]_vars

\* tab.addGraph(key, config), tab.Graph.add(key, config)
Tab_AddGraph ==
    /\ \E key \in GraphKeys, config \in TabConfigs :
        /\ call' = [op |-> "addGraph", before |-> tab, key |-> key, config |-> config,
                    seq |-> <<>>]
        /\ tab' = ensure_graph(tab, key, config)
    /\ UNCHANGED <<graphVars, serviceVars, objVars, build, store>>

\* tab.push_graph_sample(key, sample, config)
Tab_PushGraphSample ==
    /\ Len(pushed) < MaxTabPushed
    /\ \E key \in GraphKeys, config \in TabConfigs, sample \in TabSamples :
        /\ call' = [op |-> "push_graph_sample", before |-> tab, key |-> key,
                    config |-> config, seq |-> <<sample>>]
        /\ tab' = push_graph_sample(tab, key, sample, config)
        /\ pushed' = Append(pushed, sample)
    /\ UNCHANGED <<graph, capChanged, serviceVars, objVars, build, store>>

\* tab.add_graph_samples(key, seq, config)
Tab_AddGraphSamples ==
    /\ \E key \in GraphKeys, config \in TabConfigs, seq \in SeqsUpTo(TabSamples, MaxBatch) :
        /\ Len(pushed) + Len(seq) <= MaxTabPushed
        /\ call' = [op |-> "add_graph_samples", before |-> tab, key |-> key,
                    config |-> config, seq |-> seq]
        /\ tab' = add_graph_samples(tab, key, seq, config)
        /\ pushed' = pushed \o seq
    /\ UNCHANGED <<graph, capChanged, serviceVars, objVars, build, store>>

\* tab.Graph[key].x = sample
Tab_GraphAssign ==
    /\ Len(pushed) < MaxTabPushed
    /\ \E key \in GraphKeys, sample \in TabSamples :
        /\ call' = [op |-> "Graph[]", before |-> tab, key |-> key, seq |-> <<sample>>]
        /\ tab' = [GraphCollection_index(tab, key) EXCEPT !.graphs[key] = push(@, sample)]
        /\ pushed' = Append(pushed, sample)
    /\ UNCHANGED <<graph, capChanged, serviceVars, objVars, build, store>>

NextTabGraphs ==
    \/ Tab_AddGraph
    \/ Tab_PushGraphSample
    \/ Tab_AddGraphSamples
    \/ Tab_GraphAssign
    \/ Tab_Clear

SpecTabGraphs == InitTab /\ [][NextTabGraphs]_vars

(***************************************************************************)
(* StructureBuilders under single observed calls: field and nested on the  *)
(* builders of one tree, on a builder of the root vector, on the builders  *)
(* nested returned and on StructureBuilder(nullptr).                       *)
(***************************************************************************)
\* the fields a callback writes: an int and a float, as in the test (lines 37, 40)
FieldCalls ==
    { [label |-> "health", ctype |-> "int", v |-> "97"],
      [label |-> "x", ctype |-> "float", v |-> "0.5f"] }
GroupLabels == {"position"}

RECURSIVE SumLen(_)
SumLen(q) == IF q = <<>> THEN 0 ELSE Len(Head(q)) + SumLen(Tail(q))
\* the number of calls made on the builders so far
CallsMade == SumLen(build.log)

InitBuilder == GraphIdle /\ ApiIdle /\ ServiceStopped

\* b.field(label, value)
Builder_Field ==
    /\ ~build.crashed
    /\ CallsMade < MaxCalls
    /\ \E b \in DOMAIN build.handles, c \in FieldCalls, ub \in UBOutcomes :
        /\ call' = [op |-> "field", before |-> build, b |-> b, label |-> c.label]
        /\ build' = field(build, b, c.label, c.ctype, c.v, ub)
    /\ UNCHANGED <<graphVars, serviceVars, objVars, tab, store>>

\* auto g = b.nested(label)
Builder_Nested ==
    /\ ~build.crashed
    /\ CallsMade < MaxCalls
    /\ \E b \in DOMAIN build.handles, label \in GroupLabels, ub \in UBOutcomes :
        /\ call' = [op |-> "nested", before |-> build, b |-> b, label |-> label]
        /\ build' = nested(build, b, label, ub)
    /\ UNCHANGED <<graphVars, serviceVars, objVars, tab, store>>

NextBuilder == Builder_Field \/ Builder_Nested

SpecBuilder == InitBuilder /\ [][NextBuilder]_vars

(***************************************************************************)
(* A Tab under update_structure and clear.  The callbacks are scripts.     *)
(***************************************************************************)
StructKeys == {"player", "world"}

\* [](StructureBuilder&) {}: a callback that appends nothing
EmptyScript == <<>>
\* the callback of the test (debug_visualizer_test.cc:36-43)
PlayerScript ==
    << [b |-> 1, op |-> "field", label |-> "health", ctype |-> "int", v |-> "97"],
       [b |-> 1, op |-> "field", label |-> "mana", ctype |-> "int", v |-> "44"],
       [b |-> 1, op |-> "nested", label |-> "position", ctype |-> "", v |-> ""],
       [b |-> 2, op |-> "field", label |-> "x", ctype |-> "float", v |-> "0.5f"],
       [b |-> 2, op |-> "field", label |-> "y", ctype |-> "float", v |-> "-2.0f"],
       [b |-> 2, op |-> "field", label |-> "z", ctype |-> "float", v |-> "0.5f"] >>
\* a callback that writes one field
FieldScript ==
    << [b |-> 1, op |-> "field", label |-> "health", ctype |-> "int", v |-> "97"] >>
\* a callback that opens the group first and fills it after a field of the
\* parent: auto position = builder.nested("position"); builder.field("health", 97);
\* position.field("x", 0.5f);
GroupFirstScript ==
    << [b |-> 1, op |-> "nested", label |-> "position", ctype |-> "", v |-> ""],
       [b |-> 1, op |-> "field", label |-> "health", ctype |-> "int", v |-> "97"],
       [b |-> 2, op |-> "field", label |-> "x", ctype |-> "float", v |-> "0.5f"] >>
Scripts == {EmptyScript, PlayerScript, FieldScript, GroupFirstScript}

InitTabStructures == GraphIdle /\ ApiIdle /\ ServiceStopped

\* tab.update_structure(key, f), f a callback or an empty std::function
Tab_UpdateStructure ==
    /\ ~crashed
    /\ \E key \in StructKeys, f \in Scripts \cup {NoBuilder}, ub \in UBOutcomes :
        LET ended == StructureBuild(tab, key, f, ub).crashed
        IN  /\ call' = [op |-> "update_structure", before |-> tab, key |-> key,
                        f |-> f, ub |-> ub]
            /\ crashed' = ended
            /\ tab' = IF ended THEN tab ELSE update_structure(tab, key, f, ub)
    /\ UNCHANGED <<graphVars, stateVars, ownerVars, clientVars, throws, destroyed,
                   histVars, build, store, objVars>>

NextTabStructures == Tab_UpdateStructure \/ Tab_Clear

SpecTabStructures == InitTabStructures /\ [][NextTabStructures]_vars

(***************************************************************************)
(* The store under single observed calls.  A call is made on the root      *)
(* store (where = 0) or on one of its window tiles (where = its position). *)
(***************************************************************************)
TabIds == {"overview", "metrics", "state"}
TileTabIds == {"overview", "state"}
TileIds == {"ai"}
TabTitles == {"", "Metrics"}
WindowTitles == {"", "AI Debug"}

Where == 0..Len(store.tiles)
At(s, w) == IF w = 0 THEN s ELSE s.tiles[w].visualizer
With(w, r) == IF w = 0 THEN r ELSE [store EXCEPT !.tiles[w].visualizer = r]
TabIdsAt(w) == IF w = 0 THEN TabIds ELSE TileTabIds
\* the titles passed for a tab: none, the id itself (add_tab(id)) and, in the
\* root store, one that differs from every id
TabTitlesAt(w, id) == IF w = 0 THEN TabTitles \cup {id} ELSE {"", id}

InitStore ==
    /\ GraphIdle
    /\ ApiIdle
    /\ ServiceStopped

\* tabs[id], tabs.add(id, title), add_tab(id, title), add_tab(id)
Store_EnsureTab ==
    /\ \E w \in Where : \E id \in TabIdsAt(w) : \E title \in TabTitlesAt(w, id) :
        LET r == ensure_tab(At(store, w), id, title)
        IN  /\ call' = [op |-> "ensure_tab", before |-> store, where |-> w, id |-> id,
                        title |-> title, ret |-> r.ret]
            /\ store' = With(w, r.store)
    /\ UNCHANGED <<graphVars, serviceVars, objVars, tab, build>>

\* remove_tab(id)
Store_RemoveTab ==
    /\ \E w \in Where : \E id \in TabIdsAt(w) :
        LET r == remove_tab(At(store, w), id)
        IN  /\ call' = [op |-> "remove_tab", before |-> store, where |-> w, id |-> id,
                        title |-> "", ret |-> r.ret]
            /\ store' = With(w, r.store)
    /\ UNCHANGED <<graphVars, serviceVars, objVars, tab, build>>

\* set_title(title) on a tab obtained earlier
Store_SetTitle ==
    /\ \E w \in Where : \E i \in 1..Len(At(store, w).tabs) :
            \E title \in TabTitlesAt(w, At(store, w).tabs[i].id) :
        /\ call' = [op |-> "set_title", before |-> store, where |-> w,
                    id |-> At(store, w).tabs[i].id, title |-> title, ret |-> i]
        /\ store' = With(w, [At(store, w) EXCEPT !.tabs[i] = set_title(@, title)])
    /\ UNCHANGED <<graphVars, serviceVars, objVars, tab, build>>

\* update_value("score", 42) on a tab obtained earlier
Store_TabUpdateValue ==
    /\ \E w \in Where : \E i \in 1..Len(At(store, w).tabs) :
        /\ call' = [op |-> "tab.update_value", before |-> store, where |-> w,
                    id |-> At(store, w).tabs[i].id, title |-> "", ret |-> i]
        /\ store' = With(w, [At(store, w) EXCEPT !.tabs[i] = update_value(@, "score", "int", "42")])
    /\ UNCHANGED <<graphVars, serviceVars, objVars, tab, build>>

\* update_value("score", 42) on the store: it goes to the default tab
Store_UpdateValue ==
    /\ \E w \in Where :
        /\ call' = [op |-> "update_value", before |-> store, where |-> w,
                    id |-> DefaultTabId, title |-> "", ret |-> 0, key |-> "score",
                    ctype |-> "int", v |-> "42"]
        /\ store' = With(w, store_update_value(At(store, w), "score", "int", "42"))
    /\ UNCHANGED <<graphVars, serviceVars, objVars, tab, build>>

\* clear()
Store_Clear ==
    /\ \E w \in Where :
        /\ call' = [op |-> "clear", before |-> store, where |-> w, id |-> "", title |-> "",
                    ret |-> 0]
        /\ store' = With(w, clear(At(store, w)))
    /\ UNCHANGED <<graphVars, serviceVars, objVars, tab, build>>

\* window_tile(id, title), window_tile(id) on the root store
Store_WindowTile ==
    /\ \E id \in TileIds : \E title \in WindowTitles \cup {id} :
        LET r == window_tile(store, id, title)
        IN  /\ call' = [op |-> "window_tile", before |-> store, where |-> 0, id |-> id,
                        title |-> title, ret |-> r.ret]
            /\ store' = r.store
    /\ UNCHANGED <<graphVars, serviceVars, objVars, tab, build>>

\* remove_window_tile(id) on the root store
Store_RemoveWindowTile ==
    /\ \E id \in TileIds :
        LET r == remove_window_tile(store, id)
        IN  /\ call' = [op |-> "remove_window_tile", before |-> store, where |-> 0, id |-> id,
                        title |-> "", ret |-> r.ret]
            /\ store' = r.store
    /\ UNCHANGED <<graphVars, serviceVars, objVars, tab, build>>

NextStore ==
    \/ Store_EnsureTab
    \/ Store_RemoveTab
    \/ Store_SetTitle
    \/ Store_TabUpdateValue
    \/ Store_UpdateValue
    \/ Store_Clear
    \/ Store_WindowTile
    \/ Store_RemoveWindowTile

SpecStore == InitStore /\ [][NextStore]_vars

(***************************************************************************)
(* The root store with several window tiles: tabs and tiles are created,   *)
(* renamed and removed.                                                    *)
(***************************************************************************)
ManyTileIds == {"ai", "hud", "map"}

InitTiles == GraphIdle /\ ApiIdle /\ ServiceStopped

\* tabs[id], add_tab(id, title) on the root store
Tiles_EnsureTab ==
    /\ \E id \in TabIds : \E title \in TabTitles :
        LET r == ensure_tab(store, id, title)
        IN  /\ call' = [op |-> "ensure_tab", before |-> store, where |-> 0, id |-> id,
                        title |-> title, ret |-> r.ret]
            /\ store' = r.store
    /\ UNCHANGED <<graphVars, serviceVars, objVars, tab, build>>

\* remove_tab(id) on the root store
Tiles_RemoveTab ==
    /\ \E id \in TabIds :
        LET r == remove_tab(store, id)
        IN  /\ call' = [op |-> "remove_tab", before |-> store, where |-> 0, id |-> id,
                        title |-> "", ret |-> r.ret]
            /\ store' = r.store
    /\ UNCHANGED <<graphVars, serviceVars, objVars, tab, build>>

\* window_tile(id, title) on the root store
Tiles_WindowTile ==
    /\ \E id \in ManyTileIds : \E title \in WindowTitles :
        LET r == window_tile(store, id, title)
        IN  /\ call' = [op |-> "window_tile", before |-> store, where |-> 0, id |-> id,
                        title |-> title, ret |-> r.ret]
            /\ store' = r.store
    /\ UNCHANGED <<graphVars, serviceVars, objVars, tab, build>>

\* remove_window_tile(id) on the root store
Tiles_RemoveWindowTile ==
    /\ \E id \in ManyTileIds :
        LET r == remove_window_tile(store, id)
        IN  /\ call' = [op |-> "remove_window_tile", before |-> store, where |-> 0, id |-> id,
                        title |-> "", ret |-> r.ret]
            /\ store' = r.store
    /\ UNCHANGED <<graphVars, serviceVars, objVars, tab, build>>

NextTiles ==
    \/ Tiles_EnsureTab
    \/ Tiles_RemoveTab
    \/ Tiles_WindowTile
    \/ Tiles_RemoveWindowTile

SpecTiles == InitTiles /\ [][NextTiles]_vars

(***************************************************************************)
(* The store under the calls that write data: scalars, graph samples and   *)
(* structures, through the store (into its default tab) and through a tab, *)
(* on the root store and on a window tile.                                 *)
(***************************************************************************)
DataConfig == GraphConfig(MaxTabCap, TRUE)
\* the callbacks passed to the store: they append through the builder they
\* are given, or not at all
DataScripts == {EmptyScript, FieldScript}

InitStoreData == GraphIdle /\ ApiIdle /\ ServiceStopped

\* tabs.add("metrics", "Metrics") on the root store
Data_EnsureTab ==
    /\ LET r == ensure_tab(store, "metrics", "Metrics")
       IN  /\ call' = [op |-> "ensure_tab", before |-> store, where |-> 0, id |-> "metrics",
                       title |-> "Metrics", ret |-> r.ret]
           /\ store' = r.store
    /\ UNCHANGED <<graphVars, serviceVars, objVars, tab, build>>

\* push_graph_sample("fps", 58, config) on the store
Data_PushGraphSample ==
    /\ \E w \in Where :
        /\ call' = [op |-> "push_graph_sample", before |-> store, where |-> w,
                    key |-> "fps", seq |-> <<58>>, config |-> DataConfig]
        /\ store' = With(w, store_push_graph_sample(At(store, w), "fps", 58, DataConfig))
    /\ UNCHANGED <<graphVars, serviceVars, objVars, tab, build>>

\* add_graph_samples("fps", {59, 58}, config) on the store
Data_AddGraphSamples ==
    /\ \E w \in Where :
        /\ call' = [op |-> "add_graph_samples", before |-> store, where |-> w,
                    key |-> "fps", seq |-> <<59, 58>>, config |-> DataConfig]
        /\ store' = With(w, store_add_graph_samples(At(store, w), "fps", <<59, 58>>, DataConfig))
    /\ UNCHANGED <<graphVars, serviceVars, objVars, tab, build>>

\* update_structure("player", f) on the store.  No callback of DataScripts
\* writes through a builder that nested returned, so the outcome of a write
\* through a dangling pointer is never drawn.
Data_UpdateStructure ==
    /\ \E w \in Where : \E f \in DataScripts :
        /\ call' = [op |-> "update_structure", before |-> store, where |-> w,
                    key |-> "player", f |-> f, ub |-> "lost"]
        /\ store' = With(w, store_update_structure(At(store, w), "player", f, "lost"))
    /\ UNCHANGED <<graphVars, serviceVars, objVars, tab, build>>

NextStoreData ==
    \/ Data_EnsureTab
    \/ Data_PushGraphSample
    \/ Data_AddGraphSamples
    \/ Data_UpdateStructure
    \/ Store_UpdateValue
    \/ Store_TabUpdateValue
    \/ Store_Clear
    \/ Store_WindowTile

SpecStoreData == InitStoreData /\ [][NextStoreData]_vars

(***************************************************************************)
(* Properties of the graph.                                                *)
(***************************************************************************)
\* C1: after any sequence of push, add_samples and configure calls, with any
\* capacities including 0, the number of stored samples is at most the
\* currently configured max_samples.
C1_SizeWithinCapacity ==
    Len(samples(graph)) <= graph.config.max_samples

\* C1 witness: a full graph of capacity >= 2 that has discarded samples, after
\* a reconfiguration
C1_Witness ==
    /\ capChanged
    /\ graph.config.max_samples >= 2
    /\ Len(samples(graph)) = graph.config.max_samples
    /\ Len(pushed) > Len(samples(graph))

\* C2: with a capacity k that was never changed, after N pushes the stored
\* samples are exactly the last min(N, k) pushed samples in their order, and
\* for N >= 1 latest() is the last pushed sample.
C2_LastMinNK ==
    ~capChanged =>
        LET k == graph.config.max_samples
            N == Len(pushed)
        IN  /\ Len(samples(graph)) = Min(N, k)
            /\ samples(graph) = LastN(pushed, k)
            /\ N >= 1 => latest(graph) = pushed[N]

\* C2 witness: the scenario of the test (k = 4, pushes 60, 58, 59, 61, 62)
C2_Witness ==
    /\ ~capChanged
    /\ graph.config.max_samples = 4
    /\ pushed = <<60, 58, 59, 61, 62>>
    /\ samples(graph) = <<58, 59, 61, 62>>
    /\ latest(graph) = 62

\* C17: configure(cfg) on a graph holding n samples keeps exactly the last
\* min(n, cfg.max_samples) of them, in order, stores cfg and leaves latest()
\* unchanged; a capacity of at least n keeps every sample.
C17_ConfigureKeepsLast ==
    call.op = "configure" =>
        LET old == samples(call.before)
        IN  /\ samples(graph) = LastN(old, call.arg.max_samples)
            /\ Len(samples(graph)) = Min(Len(old), call.arg.max_samples)
            /\ call.arg.max_samples >= Len(old) => samples(graph) = old
            /\ latest(graph) = latest(call.before)
            /\ graph.config = call.arg

\* C17 witness: a graph of four samples was configured down to a capacity of two
C17_Witness ==
    /\ call.op = "configure"
    /\ Len(samples(call.before)) = 4
    /\ call.arg.max_samples = 2
    /\ Len(samples(graph)) = 2
    /\ latest(graph) # 0

\* C18: with max_samples = 0 the stored samples are empty: configure empties
\* them at once, and every later push leaves them empty while latest() is the
\* sample just pushed.
C18_ZeroCapacity ==
    /\ graph.config.max_samples = 0 => samples(graph) = <<>>
    /\ (call.op = "push" /\ call.before.config.max_samples = 0) =>
            /\ samples(graph) = <<>>
            /\ latest(graph) = call.arg

\* C18 witness: a graph was reconfigured to capacity 0 and two different
\* samples have been pushed since
C18_Witness ==
    /\ call.op = "push"
    /\ capChanged
    /\ graph.config.max_samples = 0
    /\ call.before.config.max_samples = 0
    /\ latest(call.before) \in CallSamples
    /\ latest(call.before) # call.arg
    /\ latest(graph) = call.arg

\* the graph after push(seq[i]), push(seq[i+1]), ..., push(seq[Len(seq)])
RECURSIVE PushFrom(_, _, _)
PushFrom(g, seq, i) ==
    IF i > Len(seq) THEN g ELSE PushFrom(push(g, seq[i]), seq, i + 1)

\* C19: add_samples(seq) leaves the graph in the state that push of each
\* element of seq, in order, leaves it in, from every starting state; an empty
\* seq changes nothing.
C19_AddSamplesIsPushes ==
    call.op = "add_samples" =>
        /\ graph = PushFrom(call.before, call.arg, 1)
        /\ call.arg = <<>> => graph = call.before

\* C19 witness: two different samples were added to a full graph
C19_Witness ==
    /\ call.op = "add_samples"
    /\ Len(call.arg) = 2
    /\ call.arg[1] # call.arg[2]
    /\ call.before.config.max_samples >= 1
    /\ Len(samples(call.before)) = call.before.config.max_samples
    /\ latest(graph) = call.arg[2]

(***************************************************************************)
(* Properties of a tab.                                                    *)
(***************************************************************************)
\* the type tag a scalar written with an argument of C++ type ctype reads back with
TagOf(ctype) ==
    CASE ctype \in {"int", "int64_t"} -> "int64_t"
      [] ctype \in {"float", "double"} -> "double"
      [] ctype = "bool" -> "bool"
      [] ctype \in {"std::string", "const char*"} -> "std::string"

\* the value written, in the literal form of the type it reads back with
ValueOf(in) == IF in.ctype = "float" THEN FloatToDouble(in.v) ELSE in.v

\* C16: scalars are last-write-wins per key: a key reads back with the value
\* and the type tag (integer, float, bool, text) of the most recent write to
\* it, also when the type changes, and reads as absent when it was not written
\* since the last clear (or since construction); a write to one key leaves the
\* other keys as they were.
C16_ScalarLastWriteWins ==
    /\ call.op = "none" => \A k \in Keys : get_scalar(tab, k) = <<>>
    /\ call.op = "clear" => \A k \in Keys : get_scalar(tab, k) = <<>>
    /\ call.op = "update_value" =>
            /\ get_scalar(tab, call.key) =
                    <<[alt |-> TagOf(call.in.ctype), v |-> ValueOf(call.in)]>>
            /\ \A k \in Keys \ {call.key} : get_scalar(tab, k) = get_scalar(call.before, k)

\* C16 witness: a key holding a bool was written with the int 42 and reads back
\* as the integer 42, while the other key keeps its text
C16_Witness ==
    /\ call.op = "update_value"
    /\ call.key = "score"
    /\ call.in = [ctype |-> "int", v |-> "42"]
    /\ get_scalar(call.before, "score") = <<[alt |-> "bool", v |-> "true"]>>
    /\ get_scalar(tab, "score") = <<[alt |-> "int64_t", v |-> "42"]>>
    /\ get_scalar(tab, "state") = <<[alt |-> "std::string", v |-> "searching"]>>

\* C20: addGraph, Graph.add, push_graph_sample and add_graph_samples on a key
\* that has a graph with a different config reconfigure it in place: the
\* stored config becomes the requested one and the old samples are kept, only
\* trimmed from the front; with an equal config the graph is not changed by
\* the merge; a missing key gets an empty graph with the requested config.
\* The samples of the call are then pushed.  Other keys are left alone.
C20_GraphMergePolicy ==
    call.op \in {"addGraph", "push_graph_sample", "add_graph_samples"} =>
        LET existed == call.key \in DOMAIN call.before.graphs
            base == IF existed THEN call.before.graphs[call.key] ELSE NewGraph(call.config)
            new == tab.graphs[call.key]
        IN  /\ call.key \in DOMAIN tab.graphs
            /\ new.config = call.config
            /\ samples(new) = LastN(samples(base) \o call.seq, call.config.max_samples)
            /\ latest(new) = IF call.seq = <<>> THEN latest(base) ELSE call.seq[Len(call.seq)]
            /\ (existed /\ base.config = call.config /\ call.seq = <<>>) => new = base
            /\ \A k \in GraphKeys \ {call.key} :
                    /\ k \in DOMAIN tab.graphs <=> k \in DOMAIN call.before.graphs
                    /\ k \in DOMAIN tab.graphs => tab.graphs[k] = call.before.graphs[k]
            /\ tab.scalars = call.before.scalars

\* C20 witness: addGraph with capacity 1 on a key whose graph held two samples
\* under another config: the newer sample is kept
C20_Witness ==
    /\ call.op = "addGraph"
    /\ call.key \in DOMAIN call.before.graphs
    /\ call.config.max_samples = 1
    /\ Len(samples(call.before.graphs[call.key])) = 2
    /\ samples(tab.graphs[call.key]) = <<samples(call.before.graphs[call.key])[2]>>
    /\ samples(call.before.graphs[call.key])[1] # samples(call.before.graphs[call.key])[2]

\* C37: Tab.Graph[key] is get-or-create without reconfiguration.  For a key
\* that has a graph the tab is left as it is, so after Graph[key].x = sample
\* the graph has the config it had and the samples it had followed by the
\* new one, trimmed from the front to the capacity that config sets; for a
\* missing key an empty graph with the default config (max_samples 240) is
\* inserted, which then holds the one sample.  Other keys and the scalars are
\* left alone.
C37_IndexKeepsConfig ==
    call.op = "Graph[]" =>
        LET existed == call.key \in DOMAIN call.before.graphs
            got == GraphCollection_index(call.before, call.key)
            new == tab.graphs[call.key]
        IN  /\ existed => got = call.before
            /\ ~existed =>
                /\ got.graphs[call.key] = NewGraph(DefaultGraphConfig)
                /\ got.graphs[call.key].config.max_samples = 240
            /\ call.key \in DOMAIN tab.graphs
            /\ new.config = IF existed THEN call.before.graphs[call.key].config
                             ELSE DefaultGraphConfig
            /\ samples(new) =
                    LastN((IF existed THEN samples(call.before.graphs[call.key]) ELSE <<>>)
                              \o call.seq,
                          new.config.max_samples)
            /\ latest(new) = call.seq[1]
            /\ \A k \in GraphKeys \ {call.key} :
                    /\ k \in DOMAIN tab.graphs <=> k \in DOMAIN call.before.graphs
                    /\ k \in DOMAIN tab.graphs => tab.graphs[k] = call.before.graphs[k]
            /\ tab.scalars = call.before.scalars

\* C37 witness: Graph[key].x = sample on a graph that addGraph made with
\* capacity 1 and that held another sample: the new sample replaces it
C37_Witness ==
    /\ call.op = "Graph[]"
    /\ call.key \in DOMAIN call.before.graphs
    /\ call.before.graphs[call.key].config.max_samples = 1
    /\ Len(samples(call.before.graphs[call.key])) = 1
    /\ samples(call.before.graphs[call.key]) # call.seq
    /\ samples(tab.graphs[call.key]) = call.seq

(***************************************************************************)
(* Properties of the store.                                                *)
(***************************************************************************)
\* the store a call was made on, before and after the call
Before == At(call.before, call.where)
After == At(store, call.where)
\* the position the tab (the tile) named in the call had before the call, 0 for none
TabWas == find_tab_internal(Before, call.id)
TileWas == find_window_tile(call.before, call.id)

\* C12: the root store and every window tile has a tab with the default tab
\* id, from construction on and after any add_tab, remove_tab, clear and
\* update call; remove_tab(default id) returns false and changes nothing.
C12_DefaultTabAlways ==
    /\ \A w \in Where : find_tab_internal(At(store, w), DefaultTabId) # 0
    /\ (call.op = "remove_tab" /\ call.id = DefaultTabId) =>
            /\ call.ret = FALSE
            /\ store = call.before

\* C12 witness: remove_tab("overview") was called on a window tile that has a
\* second tab, with a value in its default tab
C12_Witness ==
    /\ call.op = "remove_tab"
    /\ call.id = DefaultTabId
    /\ call.where = 1
    /\ Len(After.tabs) = 2
    /\ get_scalar(After.tabs[find_tab_internal(After, DefaultTabId)], "score") # <<>>

\* C13: remove_tab(id) with a non-default id returns true exactly when a tab
\* with that id existed, and then the tabs are the former tabs without that
\* one, each with its id, title and contents, in the former order; otherwise
\* it returns false; nothing else in the store changes.
C13_RemoveTabExact ==
    (call.op = "remove_tab" /\ call.id # DefaultTabId) =>
        /\ call.ret = (TabWas # 0)
        /\ TabWas # 0 =>
                /\ After.tabs = RemoveAt(Before.tabs, TabWas)
                /\ [After EXCEPT !.tabs = Before.tabs] = Before
                /\ call.where # 0 =>
                        /\ store.tabs = call.before.tabs
                        /\ Len(store.tiles) = Len(call.before.tiles)
        /\ TabWas = 0 => store = call.before

\* C13 witness: the middle one of three tabs was removed; the tab after it has
\* a title of its own and a value
C13_Witness ==
    /\ call.op = "remove_tab"
    /\ call.where = 0
    /\ call.ret = TRUE
    /\ Len(Before.tabs) = 3
    /\ TabWas = 2
    /\ After.tabs[2].title = "Metrics"
    /\ get_scalar(After.tabs[2], "score") # <<>>

\* C14: tab ids within a store and tile ids within a store are pairwise
\* distinct; a get-or-create call (tabs[id], add_tab, window_tile) with an id
\* that exists creates nothing and returns the existing entity, which still
\* has the contents written to it before the call.
C14_GetOrCreateStable ==
    /\ \A w \in Where : \A i, j \in 1..Len(At(store, w).tabs) :
            At(store, w).tabs[i].id = At(store, w).tabs[j].id => i = j
    /\ \A i, j \in 1..Len(store.tiles) : store.tiles[i].id = store.tiles[j].id => i = j
    /\ (call.op = "ensure_tab" /\ TabWas # 0) =>
            /\ call.ret = TabWas
            /\ Len(After.tabs) = Len(Before.tabs)
            /\ After.tabs[call.ret].id = call.id
            /\ After.tabs[call.ret].scalars = Before.tabs[call.ret].scalars
            /\ After.tabs[call.ret].graphs = Before.tabs[call.ret].graphs
            /\ \A j \in 1..Len(After.tabs) : j # call.ret => After.tabs[j] = Before.tabs[j]
    /\ (call.op = "window_tile" /\ TileWas # 0) =>
            /\ call.ret = TileWas
            /\ Len(store.tiles) = Len(call.before.tiles)
            /\ store.tiles[call.ret].id = call.id
            /\ store.tiles[call.ret].visualizer.tabs = call.before.tiles[call.ret].visualizer.tabs
            /\ store.tabs = call.before.tabs

\* C14 witness: tabs["metrics"] on the root store, whose tab "metrics" holds a
\* value written through an earlier handle: the value is read through the new one
C14_Witness ==
    /\ call.op = "ensure_tab"
    /\ call.where = 0
    /\ call.id = "metrics"
    /\ call.title = ""
    /\ TabWas # 0
    /\ get_scalar(Before.tabs[TabWas], "score") = <<[alt |-> "int64_t", v |-> "42"]>>
    /\ get_scalar(After.tabs[call.ret], "score") = <<[alt |-> "int64_t", v |-> "42"]>>
    /\ Len(store.tiles) = 1

\* C15: a tab created without a title has its id as title; a later
\* get-or-create replaces the title exactly when it is given a non-empty one;
\* set_title("") and get-or-create with an empty title leave the title as it
\* is, so no title is ever empty; window_tile(id, title) on an existing tile
\* replaces the window title exactly when it is given a non-empty one.
C15_TitlePolicy ==
    /\ \A w \in Where : \A i \in 1..Len(At(store, w).tabs) : At(store, w).tabs[i].title # ""
    /\ call.op = "ensure_tab" =>
            After.tabs[call.ret].title =
                IF call.title # "" THEN call.title
                ELSE IF TabWas = 0 THEN call.id ELSE Before.tabs[TabWas].title
    /\ call.op = "set_title" =>
            After.tabs[call.ret].title =
                IF call.title # "" THEN call.title ELSE Before.tabs[call.ret].title
    /\ (call.op = "window_tile" /\ TileWas # 0) =>
            store.tiles[call.ret].visualizer.window_title =
                IF call.title # "" THEN call.title
                ELSE call.before.tiles[TileWas].visualizer.window_title

\* C15 witness: set_title("") on a tab that had been given the title "Metrics"
C15_Witness ==
    /\ call.op = "set_title"
    /\ call.title = ""
    /\ call.id = "state"
    /\ Before.tabs[call.ret].title = "Metrics"
    /\ After.tabs[call.ret].title = "Metrics"

(***************************************************************************)
(* Properties of the service.                                              *)
(***************************************************************************)
\* the client is inside ShutdownBackgroundVisualizer, past its join
PastJoin(p) == pc[p] \in {"sh_thread", "sh_flags", "sh_clear"}
\* the client is inside ShutdownBackgroundVisualizer
InShutdown(p) ==
    pc[p] \in {"sh_stop", "sh_enqueue", "sh_join", "sh_joining", "sh_thread", "sh_flags", "sh_clear"}
\* the client is inside the locked part of EnsureThreadStarted
InSpawnSection(p) ==
    pc[p] \in {"ets_join", "ets_joining", "ets_stop", "ets_spawn", "ets_started"}
\* the owner thread's next step is to lock the queue mutex
WantsMutex(o) == opc[o] \in {"opts", "flush", "exit_clear"}

\* C3: every command enqueued by a post_* call before
\* ShutdownBackgroundVisualizer is called has been applied exactly once when the
\* owner thread has terminated and Shutdown has joined it: none is lost, none
\* is duplicated.
C3_AppliedExactlyOnce ==
    \A p \in Clients :
        PastJoin(p) => \A id \in preShut[p] : Count(applied, id) = 1

\* C3 witness: a Shutdown has joined the owner thread and all the commands
\* enqueued before it, by both producers, were applied once
C3_Witness ==
    \E p \in Clients :
        /\ PastJoin(p)
        /\ Cardinality(preShut[p]) = MaxCmds
        /\ \A id \in preShut[p] : Count(applied, id) = 1

\* C4: at any time at most one owner thread is live (spawned and not yet
\* terminated), whatever Start, Shutdown and post_* calls are in progress.
C4_AtMostOneOwner ==
    Cardinality(LiveOwners) <= 1

\* C4 witness: a caller restarts the service while the previous owner thread
\* is still on its exit path
C4_Witness ==
    \E p \in Clients, o \in Owners :
        /\ pc[p] = "ets_joining"
        /\ joiner[o] = p
        /\ opc[o] \in {"returned", "exit_started", "exit_clear", "exit_stop"}

\* C5: no state is reachable in which a producer inside a post_* call and the
\* owner thread wait for each other.
C5_NoMutualWait ==
    ~ \E p \in Clients, o \in Owners :
        /\ cmd[p] # 0
        /\ pc[p] = "ets_joining" /\ joiner[o] = p
        /\ mutex = p
        /\ WantsMutex(o)

\* C6: when ShutdownBackgroundVisualizer, called while an owner thread was
\* started, returns, the service is Stopped: no owner thread is live,
\* IsBackgroundVisualizerRunning() is false and the pending queue is empty.
C6_ShutdownLeavesStopped ==
    [][\A p \in Clients :
        (pc[p] = "sh_clear" /\ pc'[p] = "idle") =>
            /\ LiveOwners' = {}
            /\ ~running'
            /\ pending_updates' = <<>>]_vars

\* C6 witness: a Shutdown is about to return, it has joined the owner thread
\* which applied commands, and the service is Stopped
C6_Witness ==
    \E p \in Clients :
        /\ pc[p] = "sh_clear"
        /\ applied # <<>>
        /\ LiveOwners = {} /\ ~running /\ ~thread_started /\ thread = NoThread

\* C7: when a Start or post_* call spawns an owner thread while no Shutdown
\* call is in progress, every earlier owner thread has terminated and been
\* joined, and the new thread starts without a pending stop request: the stop
\* flag is clear and no request-close command is left in the pending queue, so
\* that the commands posted to the new run are applied by it.
C7_FreshOwner ==
    \A p \in Clients :
        (pc[p] = "ets_spawn" /\ \A q \in Clients : ~InShutdown(q)) =>
            /\ \A o \in Owners : opc[o] = "none"
            /\ thread = NoThread
            /\ ~stop_requested
            /\ ~HasClose(pending_updates)

\* C7 witness: an owner thread spawned after an earlier one had applied
\* commands is, in its first cycle, applying a command posted to its run
C7_Witness ==
    \E o \in Owners :
        /\ firstCycle[o] /\ opc[o] = "apply"
        /\ UpdateIds(updates[o]) # <<>>
        /\ applied # <<>>
        /\ \A o2 \in Owners \ {o} : opc[o2] = "none"

\* C8: lazy start is idempotent: at most one caller is inside the locked part
\* of EnsureThreadStarted, it spawns only while no owner thread is started, and
\* its spawn leaves exactly one owner thread.
C8_LazyStartIdempotent ==
    /\ Cardinality({p \in Clients : InSpawnSection(p)}) <= 1
    /\ \A p \in Clients :
        /\ InSpawnSection(p) => mutex = p /\ ~thread_started
        /\ pc[p] = "ets_spawn" => LiveOwners = {}
        /\ pc[p] = "ets_started" =>
               \E o \in Owners : /\ thread = o /\ opc[o] = "opts"
                                 /\ \A o2 \in Owners \ {o} : opc[o2] = "none"

\* C8 witness: two callers found the service Stopped; one has spawned the owner
\* thread, the other waits for the lock
C8_Witness ==
    \E p, q \in Clients :
        /\ p # q
        /\ pc[p] = "ets_started"
        /\ pc[q] = "ets_lock"

\* C9: the commands enqueued after the owner thread was spawned and before its
\* first update cycle stay in the pending queue until that cycle swaps them
\* out, and that cycle applies them all.
C9_BufferedUntilFirstCycle ==
    \A o \in Owners :
        /\ BeforeFirstSwap(o) => early \subseteq Range(UpdateIds(pending_updates))
        /\ (firstCycle[o] /\ opc[o] = "apply") => early \subseteq Range(UpdateIds(updates[o]))

\* C9 witness: the first cycle is about to apply commands that were enqueued
\* before it
C9_Witness ==
    \E o \in Owners :
        /\ firstCycle[o] /\ opc[o] = "apply"
        /\ early # {}
        /\ early \subseteq Range(UpdateIds(updates[o]))

\* C10: after ~ServiceState has returned no owner thread is live: an active
\* owner thread was asked to stop and was joined.
C10_NoOwnerAfterDestructor ==
    destroyed => \A o \in Owners : opc[o] = "none"

\* C10 witness: the destructor has returned and the owner thread it joined had
\* applied commands and ran its exit path (line 112) after the stop request
C10_Witness ==
    /\ destroyed
    /\ ~stop_requested
    /\ applied # <<>>

\* C11: the owner thread never holds the queue mutex while it applies commands;
\* a post_* call made by a command being applied never waits for a thread that
\* waits for the owner thread, and the closure it enqueues goes to the pending
\* queue: it is not among the commands of the drain in progress.
C11_NestedPostCompletes ==
    \A o \in Owners :
        Applying(o) =>
            /\ mutex # "owner"
            /\ ~(opc[o] \in {"n_lock", "n_enqueue"} /\ \E p \in Clients : mutex = p /\ joiner[o] = p)
            /\ NestedIds(pending_updates) \cap NestedIds(updates[o]) = {}
            /\ NestedIds(pending_updates) \cap Range(applied) = {}

\* C11 witness: a closure posted by a command from the owner thread has been
\* applied by a later drain
C11_Witness ==
    /\ \E i \in 1..Len(applied) : applied[i] < 0
    /\ \E i \in 1..Len(applied) : applied[i] > 0

(***************************************************************************)
(* Properties of StructureBuilder and of the structures of a Tab.          *)
(***************************************************************************)
\* the nodes the calls made on builder b ask for, in the order of the calls:
\* a leaf per field, a group per nested holding what the calls made on the
\* builder it returned ask for
RECURSIVE Expected(_, _)
Expected(bs, b) ==
    [i \in 1..Len(bs.log[b]) |->
        [label |-> bs.log[b][i].label, value |-> bs.log[b][i].value,
         children |-> IF bs.log[b][i].ret = 0 THEN <<>>
                      ELSE Expected(bs, bs.log[b][i].ret)]]

\* the path leads to a node of the tree
RECURSIVE PathExists(_, _)
PathExists(l, path) ==
    \/ path = <<>>
    \/ /\ Head(path) \in 1..Len(l.items)
       /\ PathExists(l.items[Head(path)].children, Tail(path))

\* the last call was update_structure and the process lives
Updated == call.op = "update_structure" /\ ~crashed
\* the build the last update_structure ran
LastBuild == StructureBuild(call.before, call.key, call.f, call.ub)
\* the children stored for a key, as a reader sees them
StoredChildren(t, key) == Content(t.structures[key].root.children)

\* C21: after update_structure(key, f) the children stored for the key are
\* exactly the nodes the calls of f asked for in this call, and the same call
\* made once more leaves the tree of the key as it is.
C21_RebuildsWholesale ==
    (Updated /\ call.f # NoBuilder) =>
        /\ StoredChildren(tab, call.key) = Expected(LastBuild, 1)
        /\ \A ub \in UBOutcomes :
              ~StructureBuild(tab, call.key, call.f, ub).crashed =>
                  StoredChildren(update_structure(tab, call.key, call.f, ub), call.key)
                      = StoredChildren(tab, call.key)

\* C21 witness: a key that held the tree of the test is rebuilt by a callback
\* that writes one field, and holds that field alone
C21_Witness ==
    /\ Updated
    /\ call.f = FieldScript
    /\ call.key \in DOMAIN call.before.structures
    /\ Len(StoredChildren(call.before, call.key)) = 3
    /\ StoredChildren(tab, call.key) = Expected(LastBuild, 1)
    /\ Len(StoredChildren(tab, call.key)) = 1

\* C22: get_structure(key) returns a tree exactly when the latest
\* update_structure of the key appended at least one child to the root: after
\* update_structure(key, f) the key reads back a tree (labelled key, without a
\* value) iff f made a call on the builder it was given, an entry exists for
\* the key either way, and the other keys read as before; no key reads a tree
\* after construction and after clear.
C22_PresentIffContent ==
    /\ Updated =>
          /\ get_structure(tab, call.key) # <<>>
                <=> (call.f # NoBuilder /\ \E i \in 1..Len(call.f) : call.f[i].b = 1)
          /\ call.key \in DOMAIN tab.structures
          /\ get_structure(tab, call.key) # <<>> =>
                /\ get_structure(tab, call.key)[1].label = call.key
                /\ get_structure(tab, call.key)[1].value = <<>>
                /\ get_structure(tab, call.key)[1].children # <<>>
          /\ \A k \in StructKeys \ {call.key} :
                get_structure(tab, k) = get_structure(call.before, k)
    /\ call.op \in {"none", "clear"} =>
          \A k \in StructKeys : get_structure(tab, k) = <<>>

\* C22 witness: a key that read back a tree was updated by a callback that
\* appends nothing and reads absent, while its entry exists
C22_Witness ==
    /\ Updated
    /\ call.f = EmptyScript
    /\ get_structure(call.before, call.key) # <<>>
    /\ get_structure(tab, call.key) = <<>>
    /\ call.key \in DOMAIN tab.structures

\* C23: update_structure with an empty std::function changes nothing: the
\* stored structures and what get_structure returns for every key are as
\* before the call.
C23_NullBuilderNoOp ==
    (Updated /\ call.f = NoBuilder) =>
        /\ tab.structures = call.before.structures
        /\ \A k \in StructKeys : get_structure(tab, k) = get_structure(call.before, k)

\* C23 witness: update_structure was called with an empty std::function on a
\* key that held no entry
C23_Witness ==
    /\ Updated
    /\ call.f = NoBuilder
    /\ call.key \notin DOMAIN call.before.structures

\* the last call was made on a builder and the process lives
Built == call.op \in {"field", "nested"} /\ ~build.crashed

\* C24: the group node of every builder that nested returned on an attached
\* builder exists, and its children are exactly the nodes the calls made on
\* that builder asked for, whatever was appended through other builders.
C24_NestedWritesIntoGroup ==
    ~build.crashed =>
        \A g \in DOMAIN build.handles :
            build.handles[g].path # <<>> =>
                /\ PathExists(build.list, build.handles[g].path)
                /\ Content(ListAt(build.list, build.handles[g].path)) = Expected(build, g)

\* C24 witness: a field was appended through a builder that nested returned
\* and is the single child of its group node
C24_Witness ==
    /\ Built
    /\ call.op = "field"
    /\ call.b > 2
    /\ build.handles[call.b].st = "ok"
    /\ Len(ListAt(build.list, build.handles[call.b].path).items) = 1

\* C25: builders only append: the vector of every attached builder holds one
\* node per call made on the builder, in the order of the calls, a leaf (a
\* value, no children) with the label of the call per field and a group
\* (no value) with the label of the call per nested.
C25_BuildersOnlyAppend ==
    ~build.crashed =>
        \A b \in DOMAIN build.handles :
            (build.handles[b].st # "detached"
             /\ PathExists(build.list, build.handles[b].path)) =>
                LET items == ListAt(build.list, build.handles[b].path).items
                    log == build.log[b]
                IN  /\ Len(items) = Len(log)
                    /\ \A i \in 1..Len(items) :
                          i <= Len(log) =>
                              /\ items[i].label = log[i].label
                              /\ log[i].kind = "field" =>
                                    /\ items[i].value = log[i].value
                                    /\ items[i].value # <<>>
                                    /\ items[i].children.items = <<>>
                              /\ log[i].kind = "nested" => items[i].value = <<>>

\* C25 witness: two fields and then a group were appended through the root
\* builder and a field through the builder of the group, as in the test
C25_Witness ==
    /\ Built
    /\ Len(build.list.items) = 3
    /\ build.list.items[1].value # <<>>
    /\ build.list.items[2].value # <<>>
    /\ build.list.items[3].value = <<>>
    /\ Len(build.list.items[3].children.items) = 1

\* C26: a call on a detached builder changes no node list and no other
\* builder, and nested on it returns a detached builder.
C26_DetachedNoOp ==
    (Built /\ call.before.handles[call.b].st = "detached") =>
        /\ build.list = call.before.list
        /\ \A i \in DOMAIN call.before.handles : build.handles[i] = call.before.handles[i]
        /\ call.op = "field" => build.handles = call.before.handles
        /\ call.op = "nested" =>
              /\ Len(build.handles) = Len(call.before.handles) + 1
              /\ build.handles[Len(build.handles)].st = "detached"

\* C26 witness: a field was written through a detached builder that nested
\* returned on a detached builder, after nodes were appended to the tree
C26_Witness ==
    /\ Built
    /\ call.op = "field"
    /\ call.b > 2
    /\ call.before.handles[call.b].st = "detached"
    /\ build.list.items # <<>>

(***************************************************************************)
(* Properties of the window tiles and of the order of tabs and tiles.      *)
(***************************************************************************)
\* the elements of seq that are not x, in order
Without(seq, x) == SelectSeq(seq, LAMBDA e : e # x)
\* the number of tiles of s with this id
TileCount(s, id) == Cardinality({i \in 1..Len(s.tiles) : s.tiles[i].id = id})

\* C27: after window_tile(id) window_tile_ids() holds id exactly once, a tile
\* that was absent being appended and the others staying as they were;
\* remove_window_tile(id) returns true exactly when a tile with the id
\* existed, and then the tiles are the former tiles without that one; it
\* returns false and changes nothing otherwise.  Neither call changes the
\* tabs of the store.
C27_TileCreateRemove ==
    /\ call.op = "window_tile" =>
          /\ TileCount(store, call.id) = 1
          /\ store.tiles[call.ret].id = call.id
          /\ TileWas = 0 => SubSeq(store.tiles, 1, Len(call.before.tiles)) = call.before.tiles
          /\ TileWas # 0 =>
                \A i \in 1..Len(call.before.tiles) :
                    i # TileWas => store.tiles[i] = call.before.tiles[i]
          /\ store.tabs = call.before.tabs
    /\ call.op = "remove_window_tile" =>
          /\ call.ret = (TileWas # 0)
          /\ call.ret => /\ store.tiles = RemoveAt(call.before.tiles, TileWas)
                         /\ TileCount(store, call.id) = 0
                         /\ store.tabs = call.before.tabs
                         /\ store.window_title = call.before.window_title
          /\ ~call.ret => store = call.before

\* C27 witness: the middle one of three tiles was removed while the store had
\* a second tab
C27_Witness ==
    /\ call.op = "remove_window_tile"
    /\ call.ret
    /\ Len(call.before.tiles) = 3
    /\ TileWas = 2
    /\ Len(store.tabs) > 1

\* C28: tab_ids() and window_tile_ids() are in the order of creation: the
\* default tab is first; a call that creates a tab (a tile) appends its id; a
\* call on an id that exists, with or without a new title, leaves the ids as
\* they are; a removal leaves the other ids in their order; a call on tabs
\* leaves the tile ids alone and a call on tiles the tab ids.
C28_CreationOrder ==
    /\ Head(tab_ids(store)) = DefaultTabId
    /\ \A i \in 1..Len(store.tiles) : Head(tab_ids(store.tiles[i].visualizer)) = DefaultTabId
    /\ call.op = "ensure_tab" =>
          /\ tab_ids(store) = IF TabWas = 0 THEN Append(tab_ids(call.before), call.id)
                              ELSE tab_ids(call.before)
          /\ window_tile_ids(store) = window_tile_ids(call.before)
    /\ call.op = "remove_tab" =>
          /\ tab_ids(store) = IF call.id = DefaultTabId THEN tab_ids(call.before)
                              ELSE Without(tab_ids(call.before), call.id)
          /\ window_tile_ids(store) = window_tile_ids(call.before)
    /\ call.op = "window_tile" =>
          /\ window_tile_ids(store) =
                IF TileWas = 0 THEN Append(window_tile_ids(call.before), call.id)
                ELSE window_tile_ids(call.before)
          /\ tab_ids(store) = tab_ids(call.before)
    /\ call.op = "remove_window_tile" =>
          /\ window_tile_ids(store) = Without(window_tile_ids(call.before), call.id)
          /\ tab_ids(store) = tab_ids(call.before)

\* C28 witness: the first of three tiles, created last after an earlier
\* removal, was renamed, with three tabs in the store
C28_Witness ==
    /\ call.op = "window_tile"
    /\ TileWas = 1
    /\ store.tiles[1].visualizer.window_title # call.before.tiles[1].visualizer.window_title
    /\ window_tile_ids(store) = <<"map", "ai", "hud">>
    /\ tab_ids(store) = <<"overview", "state", "metrics">>

(***************************************************************************)
(* Properties of clear and of the calls that write through the store.      *)
(***************************************************************************)
\* the store s with its part at w replaced
WithIn(s, w, r) == IF w = 0 THEN r ELSE [s EXCEPT !.tiles[w].visualizer = r]

\* no tab of s and of its tiles holds a scalar, a graph or a structure
RECURSIVE Emptied(_)
Emptied(s) ==
    /\ \A i \in 1..Len(s.tabs) :
          /\ DOMAIN s.tabs[i].scalars = {}
          /\ DOMAIN s.tabs[i].graphs = {}
          /\ DOMAIN s.tabs[i].structures = {}
          /\ get_scalar(s.tabs[i], "score") = <<>>
          /\ get_graph_samples(s.tabs[i], "fps") = <<>>
          /\ get_structure(s.tabs[i], "player") = <<>>
    /\ \A i \in 1..Len(s.tiles) : Emptied(s.tiles[i].visualizer)

\* what clear is to leave alone: titles, visibility, and the ids and titles of
\* the tabs and tiles in their order
RECURSIVE Shape(_)
Shape(s) ==
    [window_title |-> s.window_title, visible |-> s.visible,
     tabs |-> [i \in 1..Len(s.tabs) |-> [id |-> s.tabs[i].id, title |-> s.tabs[i].title]],
     tiles |-> [i \in 1..Len(s.tiles) |->
                  [id |-> s.tiles[i].id, visualizer |-> Shape(s.tiles[i].visualizer)]]]

\* C29: after clear() no tab of the store and of its tiles, recursively, holds
\* a scalar, a graph or a structure, every getter reads absent or empty, and
\* the tab ids, titles and order, the tile ids and order and the titles and
\* visibility of the store and of its tiles are as before; a clear on a tile
\* leaves the rest of the root store as it was.
C29_ClearFrame ==
    call.op = "clear" =>
        /\ Emptied(After)
        /\ store_get_scalar(After, "score") = <<>>
        /\ store_get_graph_samples(After, "fps") = <<>>
        /\ store_get_structure(After, "player") = <<>>
        /\ Shape(After) = Shape(Before)
        /\ store = WithIn(call.before, call.where, After)

\* C29 witness: the root store was cleared while its default tab held a
\* scalar, a graph and a structure, its tab "metrics", titled "Metrics", held a
\* scalar and its tile held a structure
C29_Witness ==
    /\ call.op = "clear"
    /\ call.where = 0
    /\ store_get_scalar(Before, "score") # <<>>
    /\ store_get_graph_samples(Before, "fps") # <<>>
    /\ store_get_structure(Before, "player") # <<>>
    /\ Len(Before.tabs) = 2
    /\ Before.tabs[2].title = "Metrics"
    /\ get_scalar(Before.tabs[2], "score") # <<>>
    /\ Len(Before.tiles) = 1
    /\ store_get_structure(Before.tiles[1].visualizer, "player") # <<>>

\* the position of the default tab in the store the call was made on
DefaultWas == find_tab_internal(Before, DefaultTabId)

\* C30: update_value, push_graph_sample, add_graph_samples and
\* update_structure on a store leave the store as the same call on its default
\* tab leaves it, every other tab and every tile as before; get_scalar,
\* get_graph_samples and get_structure on a store return what the accessors of
\* its default tab return.
C30_StoreIsDefaultTab ==
    /\ call.op = "update_value" =>
          store = WithIn(call.before, call.where,
                         [Before EXCEPT !.tabs[DefaultWas] =
                             update_value(@, call.key, call.ctype, call.v)])
    /\ call.op = "push_graph_sample" =>
          store = WithIn(call.before, call.where,
                         [Before EXCEPT !.tabs[DefaultWas] =
                             push_graph_sample(@, call.key, call.seq[1], call.config)])
    /\ call.op = "add_graph_samples" =>
          store = WithIn(call.before, call.where,
                         [Before EXCEPT !.tabs[DefaultWas] =
                             add_graph_samples(@, call.key, call.seq, call.config)])
    /\ call.op = "update_structure" =>
          store = WithIn(call.before, call.where,
                         [Before EXCEPT !.tabs[DefaultWas] =
                             update_structure(@, call.key, call.f, call.ub)])
    /\ \A w \in Where : \A i \in 1..Len(At(store, w).tabs) :
          At(store, w).tabs[i].id = DefaultTabId =>
              /\ store_get_scalar(At(store, w), "score") = get_scalar(At(store, w).tabs[i], "score")
              /\ store_get_graph_samples(At(store, w), "fps")
                    = get_graph_samples(At(store, w).tabs[i], "fps")
              /\ store_get_structure(At(store, w), "player")
                    = get_structure(At(store, w).tabs[i], "player")

\* C30 witness: a sample was pushed through the root store, which has a
\* second tab holding a scalar and a tile holding a graph, and the store
\* reads the graph back with the oldest sample gone and that sample last
C30_Witness ==
    /\ call.op = "push_graph_sample"
    /\ call.where = 0
    /\ Len(store.tabs) = 2
    /\ get_scalar(store.tabs[2], "score") # <<>>
    /\ Len(store.tiles) = 1
    /\ store_get_graph_samples(store.tiles[1].visualizer, "fps") # <<>>
    /\ store_get_graph_samples(Before, "fps") = <<59, 58>>
    /\ store_get_graph_samples(store, "fps") = <<58, 58>>

(***************************************************************************)
(* The root store and two window tiles under calls on their tabs: each     *)
(* call is made on the root store (where = 0) or on a tile.                *)
(***************************************************************************)
TwoTileIds == {"ai", "hud"}
TileConfig == GraphConfig(1, TRUE)

InitTileData == GraphIdle /\ ApiIdle /\ ServiceStopped

\* the position of the default tab of the store at w
DefaultAt(w) == find_tab_internal(At(store, w), DefaultTabId)

\* window_tile(id) on the root store
TileData_WindowTile ==
    /\ \E id \in TwoTileIds :
        LET r == window_tile(store, id, id)
        IN  /\ call' = [op |-> "window_tile", before |-> store, where |-> 0, id |-> id,
                        title |-> id, ret |-> r.ret]
            /\ store' = r.store
    /\ UNCHANGED <<graphVars, serviceVars, objVars, tab, build>>

\* tabs["overview"].update_value("score", 42)
TileData_UpdateValue ==
    /\ \E w \in Where :
        /\ call' = [op |-> "tab.update_value", before |-> store, where |-> w,
                    id |-> DefaultTabId, title |-> "", ret |-> DefaultAt(w)]
        /\ store' = With(w, [At(store, w) EXCEPT !.tabs[DefaultAt(w)] =
                                update_value(@, "score", "int", "42")])
    /\ UNCHANGED <<graphVars, serviceVars, objVars, tab, build>>

\* tabs["overview"].push_graph_sample("fps", 58, config)
TileData_PushGraphSample ==
    /\ \E w \in Where :
        /\ call' = [op |-> "tab.push_graph_sample", before |-> store, where |-> w,
                    id |-> DefaultTabId, title |-> "", ret |-> DefaultAt(w)]
        /\ store' = With(w, [At(store, w) EXCEPT !.tabs[DefaultAt(w)] =
                                push_graph_sample(@, "fps", 58, TileConfig)])
    /\ UNCHANGED <<graphVars, serviceVars, objVars, tab, build>>

\* tabs["overview"].update_structure("player", f), f writing one field
TileData_UpdateStructure ==
    /\ \E w \in Where :
        /\ call' = [op |-> "tab.update_structure", before |-> store, where |-> w,
                    id |-> DefaultTabId, title |-> "", ret |-> DefaultAt(w)]
        /\ store' = With(w, [At(store, w) EXCEPT !.tabs[DefaultAt(w)] =
                                update_structure(@, "player", FieldScript, "lost")])
    /\ UNCHANGED <<graphVars, serviceVars, objVars, tab, build>>

\* add_tab("metrics", "Metrics")
TileData_AddTab ==
    /\ \E w \in Where :
        LET r == ensure_tab(At(store, w), "metrics", "Metrics")
        IN  /\ call' = [op |-> "ensure_tab", before |-> store, where |-> w, id |-> "metrics",
                        title |-> "Metrics", ret |-> r.ret]
            /\ store' = With(w, r.store)
    /\ UNCHANGED <<graphVars, serviceVars, objVars, tab, build>>

\* remove_tab("metrics")
TileData_RemoveTab ==
    /\ \E w \in Where :
        LET r == remove_tab(At(store, w), "metrics")
        IN  /\ call' = [op |-> "remove_tab", before |-> store, where |-> w, id |-> "metrics",
                        title |-> "", ret |-> r.ret]
            /\ store' = With(w, r.store)
    /\ UNCHANGED <<graphVars, serviceVars, objVars, tab, build>>

NextTileData ==
    \/ TileData_WindowTile
    \/ TileData_UpdateValue
    \/ TileData_PushGraphSample
    \/ TileData_UpdateStructure
    \/ TileData_AddTab
    \/ TileData_RemoveTab

SpecTileData == InitTileData /\ [][NextTileData]_vars

(***************************************************************************)
(* Properties of window tiles as stores of their own.                      *)
(***************************************************************************)
\* the last call was made on the tabs of a store
OnTabs ==
    call.op \in {"tab.update_value", "tab.push_graph_sample", "tab.update_structure",
                 "ensure_tab", "remove_tab"}

\* C31: a tile that window_tile creates has one tab, its default tab, without
\* scalars, graphs and structures, has no tiles and is visible; a call on the
\* tabs of a tile leaves the tabs of the root store and every other tile as
\* they were; a call on the tabs of the root store leaves its tiles as they were.
C31_TileIndependent ==
    /\ (call.op = "window_tile" /\ TileWas = 0) =>
          LET v == store.tiles[call.ret].visualizer
          IN  /\ tab_ids(v) = <<DefaultTabId>>
              /\ v.tabs[1] = NewTab(DefaultTabId, "")
              /\ Emptied(v)
              /\ v.tiles = <<>>
              /\ v.visible
              /\ store.tabs = call.before.tabs
    /\ (OnTabs /\ call.where # 0) =>
          /\ store.tabs = call.before.tabs
          /\ window_tile_ids(store) = window_tile_ids(call.before)
          /\ \A j \in 1..Len(store.tiles) :
                j # call.where => store.tiles[j] = call.before.tiles[j]
    /\ (OnTabs /\ call.where = 0) => store.tiles = call.before.tiles

\* C31 witness: a structure was written to the second tile, which held none,
\* while the root store and the first tile each hold a scalar and a second tab
C31_Witness ==
    /\ call.op = "tab.update_structure"
    /\ call.where = 2
    /\ store_get_structure(After, "player") # <<>>
    /\ store_get_structure(Before, "player") = <<>>
    /\ store_get_scalar(store, "score") # <<>>
    /\ store_get_scalar(store.tiles[1].visualizer, "score") # <<>>
    /\ Len(store.tabs) = 2
    /\ Len(store.tiles[1].visualizer.tabs) = 2

(***************************************************************************)
(* The read accessors, called on the tabs and on the stores that the       *)
(* writing calls of SpecTileData build.                                    *)
(***************************************************************************)
Getters == {"get_scalar", "get_graph_samples", "get_structure"}
ReadKeys == {"score", "fps", "player"}

InitRead == GraphIdle /\ ApiIdle /\ ServiceStopped

\* tabs["overview"].get_scalar(key), .get_graph_samples(key), .get_structure(key)
Read_Tab ==
    /\ \E w \in Where : \E getter \in Getters : \E key \in ReadKeys :
        LET r == tab_read(At(store, w).tabs[DefaultAt(w)], getter, key)
        IN  /\ call' = [op |-> "tab.get", before |-> store, where |-> w, getter |-> getter,
                        key |-> key, ret |-> r.ret]
            /\ store' = With(w, [At(store, w) EXCEPT !.tabs[DefaultAt(w)] = r.tab])
    /\ UNCHANGED <<graphVars, serviceVars, objVars, tab, build>>

\* get_scalar(key), get_graph_samples(key), get_structure(key) on a store
Read_Store ==
    /\ \E w \in Where : \E getter \in Getters : \E key \in ReadKeys :
        LET r == store_read(At(store, w), getter, key)
        IN  /\ call' = [op |-> "get", before |-> store, where |-> w, getter |-> getter,
                        key |-> key, ret |-> r.ret]
            /\ store' = With(w, r.store)
    /\ UNCHANGED <<graphVars, serviceVars, objVars, tab, build>>

NextRead ==
    \/ TileData_WindowTile
    \/ TileData_UpdateValue
    \/ TileData_PushGraphSample
    \/ TileData_UpdateStructure
    \/ Read_Tab
    \/ Read_Store

SpecRead == InitRead /\ [][NextRead]_vars

\* the map of the default tab of the store the call was made on that the
\* getter of the call reads
MapRead ==
    LET t == Before.tabs[find_tab_internal(Before, DefaultTabId)]
    IN  CASE call.getter = "get_scalar" -> t.scalars
          [] call.getter = "get_graph_samples" -> t.graphs
          [] call.getter = "get_structure" -> t.structures

\* C32: a call of get_scalar, get_graph_samples or get_structure on a tab or
\* on a store leaves the store, every tab and every map of it as before the
\* call, for a key that is present and for one that is missing, and returns
\* absent (no samples) for a key that is missing.
C32_GettersPure ==
    call.op \in {"tab.get", "get"} =>
        /\ store = call.before
        /\ call.key \notin DOMAIN MapRead => call.ret = <<>>
        /\ (call.getter = "get_scalar" /\ call.key \in DOMAIN MapRead) =>
              call.ret = <<MapRead[call.key]>>
        /\ (call.getter = "get_graph_samples" /\ call.key \in DOMAIN MapRead) =>
              call.ret = MapRead[call.key].samples

\* C32 witness: get_graph_samples was called on a tile for a key that only the
\* scalars of its default tab hold
C32_Witness ==
    /\ call.op = "get"
    /\ call.where = 1
    /\ call.getter = "get_graph_samples"
    /\ call.key = "score"
    /\ store_get_scalar(After, "score") # <<>>
    /\ call.ret = <<>>

(***************************************************************************)
(* Two DebugVisualizerApp objects under construction, destruction, moves   *)
(* and calls on their Tiles members.                                       *)
(***************************************************************************)
InitApp == GraphIdle /\ ApiIdle /\ ServiceStopped

\* DebugVisualizerApp a(options)
App_Construct ==
    /\ \E a \in AppAddrs :
        /\ a \notin DOMAIN apps
        /\ call' = [op |-> "app", before |-> apps, dst |-> a, src |-> a, id |-> "",
                    title |-> "", ret |-> [ref |-> "none", at |-> 0]]
        /\ apps' = Put(apps, a, NewApp(a))
    /\ UNCHANGED <<graphVars, serviceVars, gobj, tab, build, store>>

\* ~DebugVisualizerApp
App_Destroy ==
    /\ \E a \in AppAddrs :
        /\ a \in DOMAIN apps
        /\ call' = [op |-> "~app", before |-> apps, dst |-> a, src |-> a, id |-> "",
                    title |-> "", ret |-> [ref |-> "none", at |-> 0]]
        /\ apps' = Destroyed(apps, a)
    /\ UNCHANGED <<graphVars, serviceVars, gobj, tab, build, store>>

\* DebugVisualizerApp dst(std::move(src))
App_MoveConstruct ==
    /\ \E dst \in AppAddrs, src \in AppAddrs :
        /\ dst \notin DOMAIN apps
        /\ src \in DOMAIN apps
        /\ call' = [op |-> "move_construct", before |-> apps, dst |-> dst, src |-> src,
                    id |-> "", title |-> "", ret |-> [ref |-> "none", at |-> 0]]
        /\ apps' = app_move_construct(apps, dst, src)
    /\ UNCHANGED <<graphVars, serviceVars, gobj, tab, build, store>>

\* dst = std::move(src), dst and src possibly the same object
App_MoveAssign ==
    /\ \E dst \in AppAddrs, src \in AppAddrs :
        /\ dst \in DOMAIN apps
        /\ src \in DOMAIN apps
        /\ call' = [op |-> "move_assign", before |-> apps, dst |-> dst, src |-> src,
                    id |-> "", title |-> "", ret |-> [ref |-> "none", at |-> 0]]
        /\ apps' = app_move_assign(apps, dst, src)
    /\ UNCHANGED <<graphVars, serviceVars, gobj, tab, build, store>>

\* a.Tiles[id]
App_TilesIndex ==
    /\ \E a \in AppAddrs, id \in TwoTileIds :
        /\ a \in DOMAIN apps
        /\ LET r == Tiles_index(apps, a, id)
           IN  /\ call' = [op |-> "Tiles[]", before |-> apps, dst |-> a, src |-> a,
                           id |-> id, title |-> "", ret |-> r.ret]
               /\ apps' = r.obj
    /\ UNCHANGED <<graphVars, serviceVars, gobj, tab, build, store>>

\* a.Tiles.add(id, title)
App_TilesAdd ==
    /\ \E a \in AppAddrs, id \in TwoTileIds, title \in WindowTitles :
        /\ a \in DOMAIN apps
        /\ LET r == Tiles_add(apps, a, id, title)
           IN  /\ call' = [op |-> "Tiles.add", before |-> apps, dst |-> a, src |-> a,
                           id |-> id, title |-> title, ret |-> r.ret]
               /\ apps' = r.obj
    /\ UNCHANGED <<graphVars, serviceVars, gobj, tab, build, store>>

NextApp ==
    \/ App_Construct
    \/ App_Destroy
    \/ App_MoveConstruct
    \/ App_MoveAssign
    \/ App_TilesIndex
    \/ App_TilesAdd

SpecApp == InitApp /\ [][NextApp]_vars

\* the call was a move between two different app objects
Moved == call.op \in {"move_construct", "move_assign"} /\ call.dst # call.src

\* the ids of the tiles of the store that the source of the move held
MovedIds ==
    IF call.before[call.src].impl = <<>> THEN <<>>
    ELSE window_tile_ids(call.before[call.src].impl[1])

\* C33: after a move construction or a move assignment between two app
\* objects the Tiles collection of the destination refers to the destination
\* and reaches the moved store, so contains, size and ids report exactly the
\* tiles made before the move; the Tiles collection of the source has no
\* owner, its contains, size and ids report nothing, and a get-or-create
\* through a collection without an owner returns the placeholder and leaves
\* every app object, the moved store included, as it was
C33_MoveRebindsTiles ==
    /\ Moved =>
        /\ apps[call.dst].owner = call.dst
        /\ apps[call.dst].impl = call.before[call.src].impl
        /\ Tiles_ids(apps, call.dst) = MovedIds
        /\ Tiles_size(apps, call.dst) = Len(MovedIds)
        /\ \A id \in TwoTileIds :
            Tiles_contains(apps, call.dst, id) <=> (\E i \in 1..Len(MovedIds) : MovedIds[i] = id)
        /\ apps[call.src].owner = 0
        /\ Tiles_ids(apps, call.src) = <<>>
        /\ Tiles_size(apps, call.src) = 0
        /\ \A id \in TwoTileIds : ~Tiles_contains(apps, call.src, id)
        /\ \A id \in TwoTileIds, title \in WindowTitles :
            /\ Tiles_add(apps, call.src, id, title).obj = apps
            /\ Tiles_add(apps, call.src, id, title).ret.ref = "placeholder"
    /\ (call.op \in {"Tiles[]", "Tiles.add"} /\ call.before[call.dst].owner = 0) =>
        /\ apps = call.before
        /\ call.ret.ref = "placeholder"

\* an app that was moved from earlier receives, by move assignment, a store
\* with a tile, and the tile is found through its Tiles collection
C33_Witness ==
    /\ call.op = "move_assign"
    /\ call.dst # call.src
    /\ call.before[call.dst].owner = 0
    /\ Len(MovedIds) > 0
    /\ Tiles_contains(apps, call.dst, "ai")
    /\ Tiles_size(apps, call.src) = 0


(***************************************************************************)
(* The commands of the service, from the queue to their execution.         *)
(***************************************************************************)
\* the commands on their way, in the order in which they will be or have
\* been executed: those executed, those in the local vector of a drain,
\* those in the pending queue
Flow == applied \o UpdateIds(updates[1]) \o UpdateIds(updates[2]) \o UpdateIds(pending_updates)

\* C34: whatever the interleaving of posting threads, update cycles,
\* shutdowns and restarts, no command is applied more than once: a command
\* is in the pending queue, or in the local vector of the one drain that
\* swapped it out, or has been executed once, never in two of these places
\* and never twice in one of them, and only commands that were enqueued are
\* in any of them
C34_AppliedAtMostOnce ==
    LET all == Flow
    IN  /\ \A i, j \in 1..Len(all) : all[i] = all[j] => i = j
        /\ \A i \in 1..Len(all) : all[i] \in enqueued

\* one command has been applied by an owner thread that has ended, and the
\* other one waits in the queue of a restarted service whose owner thread has
\* not drained yet
C34_Witness ==
    /\ Len(applied) = 1
    /\ \E o \in Owners : firstCycle[o] /\ opc[o] = "flush"
    /\ \E id \in 1..MaxCmds : id # applied[1] /\ pending_updates = <<Update(id)>>

(***************************************************************************)
(* The quiet service with two threads that post, one of which also shuts   *)
(* the service down, so that owner threads end and are started again       *)
(* while commands are on their way.                                        *)
(***************************************************************************)
\* StartBackgroundVisualizer and the post_* functions
PostStep(p) ==
    \/ Start_SetOptions(p)
    \/ Post_Begin(p)
    \/ ETS_Check(p)
    \/ ETS_Lock(p)
    \/ ETS_Join(p)
    \/ ETS_Joined(p)
    \/ ETS_ResetStop(p)
    \/ ETS_Spawn(p)
    \/ ETS_SetStarted(p)
    \/ EnqueueUpdate(p)

\* ShutdownBackgroundVisualizer
ShutdownStep(p) ==
    \/ Shutdown_Check(p)
    \/ Shutdown_SetStop(p)
    \/ Shutdown_Enqueue(p)
    \/ Shutdown_Join(p)
    \/ Shutdown_Joined(p)
    \/ Shutdown_ResetThread(p)
    \/ Shutdown_ClearFlags(p)
    \/ Shutdown_ClearPending(p)

NextServiceOrder ==
    \/ \E p \in Clients : PostStep(p)
    \/ ShutdownStep("c1")
    \/ \E o \in Owners : OwnerStep(o, {FALSE})

SpecServiceOrder == InitService /\ [][NextServiceOrder]_vars

In(s, id) == \E i \in 1..Len(s) : s[i] = id
Pos(s, id) == CHOOSE i \in 1..Len(s) : s[i] = id

\* what the closures of value(tab_id, key, v) and clear_tab(tab_id) do to the
\* tab that EnsureTab returns
Payloads == {[op |-> "value", v |-> "1"], [op |-> "value", v |-> "2"], [op |-> "clear_tab", v |-> ""]}
Exec(t, c) == IF c.op = "value" THEN update_value(t, "score", "int", c.v) ELSE Tab_clear(t)

\* the tab after the closures of the commands ids, script[id] the closure of
\* command id, have run on it in order (FlushUpdates, lines 73-75)
RECURSIVE Replay(_, _, _)
Replay(t, ids, script) ==
    IF ids = <<>> THEN t ELSE Replay(Exec(t, script[Head(ids)]), Tail(ids), script)

\* the tabs a drain may find: a new one, and one that holds a score
FoundTabs == {NewTab("metrics", ""), update_value(NewTab("metrics", ""), "score", "int", "0")}

\* the commands that the step executes
Batch == SubSeq(applied', Len(applied) + 1, Len(applied'))

\* C35: commands are applied in the order in which they were enqueued.  At
\* most one drain holds commands at a time; in every step the commands that
\* were executed stay executed in their order, two commands on their way
\* never change their relative order, a command enters once and behind all
\* the commands on their way; and the commands that one step of a drain
\* executes run front to back, so that, whatever the closures of value and
\* clear_tab posted for one tab and key, the tab ends with the value of the
\* last command when that is a value post, and without a value when that is
\* a clear_tab: a later value post wins over an earlier one and a clear_tab
\* removes only what was posted before it
C35_AppliedInEnqueueOrder ==
    /\ [](updates[1] = <<>> \/ updates[2] = <<>>)
    /\ [][\/ UNCHANGED <<applied, updates, pending_updates>>
          \/ LET old == Flow
                 new == Flow'
             IN  /\ Len(applied') >= Len(applied)
                 /\ SubSeq(applied', 1, Len(applied)) = applied
                 /\ new # old =>
                       \A i, j \in 1..MaxCmds :
                           /\ (In(old, i) /\ In(old, j) /\ In(new, i) /\ In(new, j)
                                   /\ Pos(old, i) < Pos(old, j))
                               => Pos(new, i) < Pos(new, j)
                           /\ (In(new, i) /\ ~In(old, i))
                               => /\ i \notin enqueued
                                  /\ In(new, j) /\ j # i => Pos(new, j) < Pos(new, i)
                 /\ Batch # <<>> =>
                       \A script \in [1..MaxCmds -> Payloads], t \in FoundTabs :
                           LET last == script[Batch[Len(Batch)]]
                           IN  get_scalar(Replay(t, Batch, script), "score") =
                                   IF last.op = "value" THEN <<ScalarValueOf("int", last.v)>>
                                   ELSE <<>>
        ]_vars

\* both commands were executed by one drain, in the order of their enqueuing
C35_Witness ==
    /\ applied = <<2, 1>>
    /\ \E o \in Owners : opc[o] = "loop" /\ ~firstCycle[o]


(***************************************************************************)
(* The handle state.thread under concurrent calls.                         *)
(***************************************************************************)
\* a thread is at the join of ShutdownBackgroundVisualizer (line 185) while
\* another thread is inside join() on the same owner thread
JoinsConcurrently(p) ==
    pc[p] = "sh_join" /\ thread # NoThread /\ joiner[thread] \notin {"none", p}

\* a thread is at an assignment to state.thread (line 129 or 186) while the
\* handle refers to an owner thread that nobody has joined
ReassignsUnjoined(p) ==
    pc[p] \in {"ets_spawn", "sh_thread"} /\ thread # NoThread

\* a thread is at the final reset of ShutdownBackgroundVisualizer (lines
\* 189-194) while the handle refers to an owner thread, which was then
\* started after the join of this call
ResetsNewOwner(p) ==
    pc[p] \in {"sh_flags", "sh_clear"} /\ thread # NoThread /\ thread_started

\* C36: the accesses to the handle of the owner thread are serialized: in no
\* interleaving of ShutdownBackgroundVisualizer with Start, post_* or another
\* Shutdown do two threads join the same owner thread at the same time, is
\* the handle assigned while it refers to an unjoined thread, or does the
\* final reset of a Shutdown hit the state of an owner thread that was
\* started after the one the call joined
C36_HandleSerialized ==
    \A p \in Clients :
        /\ ~JoinsConcurrently(p)
        /\ ~ReassignsUnjoined(p)
        /\ ~ResetsNewOwner(p)

\* a Shutdown is about to clear thread_started and running of an owner thread
\* that a post of the other thread has started since the join
C36_Witness ==
    /\ pc["c1"] = "sh_flags"
    /\ thread # NoThread
    /\ thread_started
    /\ opc[thread] \notin {"none", "done"}


(***************************************************************************)
(* The root store under the one-argument and the two-argument forms of     *)
(* add_tab and window_tile, and remove_window_tile.                        *)
(***************************************************************************)
InitOneArg == GraphIdle /\ ApiIdle /\ ServiceStopped

\* add_tab(id) on the root store
OneArg_AddTab ==
    /\ \E id \in TabIds :
        LET r == add_tab(store, id)
        IN  /\ call' = [op |-> "add_tab(id)", before |-> store, where |-> 0, id |-> id,
                        title |-> "", ret |-> r.ret]
            /\ store' = r.store
    /\ UNCHANGED <<graphVars, serviceVars, objVars, tab, build>>

\* window_tile(id) on the root store
OneArg_WindowTile ==
    /\ \E id \in TwoTileIds :
        LET r == window_tile_byid(store, id)
        IN  /\ call' = [op |-> "window_tile(id)", before |-> store, where |-> 0, id |-> id,
                        title |-> "", ret |-> r.ret]
            /\ store' = r.store
    /\ UNCHANGED <<graphVars, serviceVars, objVars, tab, build>>

NextOneArg ==
    \/ Tiles_EnsureTab
    \/ Tiles_WindowTile
    \/ Tiles_RemoveWindowTile
    \/ OneArg_AddTab
    \/ OneArg_WindowTile

SpecOneArg == InitOneArg /\ [][NextOneArg]_vars

\* C38: add_tab(id) and window_tile(id) supply no title: for an id that
\* exists they return the existing tab or tile and leave the store as it
\* was, its title included, also when the title is not the id; for a new id
\* the tab or tile is made with the id as its title
C38_OneArgKeepsTitle ==
    /\ call.op = "add_tab(id)" =>
        IF TabWas # 0
        THEN call.ret = TabWas /\ store = call.before
        ELSE /\ call.ret = Len(store.tabs)
             /\ store.tabs[call.ret].id = call.id
             /\ store.tabs[call.ret].title = call.id
    /\ call.op = "window_tile(id)" =>
        IF TileWas # 0
        THEN call.ret = TileWas /\ store = call.before
        ELSE /\ call.ret = Len(store.tiles)
             /\ store.tiles[call.ret].id = call.id
             /\ store.tiles[call.ret].visualizer.window_title = call.id

\* add_tab("metrics") on a store whose tab "metrics" has the title "Metrics"
\* returns that tab, which now has the title "metrics"
C38_Witness ==
    /\ call.op = "add_tab(id)"
    /\ call.id = "metrics"
    /\ TabWas # 0
    /\ call.before.tabs[TabWas].title = "Metrics"
    /\ store.tabs[call.ret].title = "metrics"


(***************************************************************************)
(* Two Graph objects under construction, copies, moves, destruction and    *)
(* assignments to their proxy member x.                                    *)
(***************************************************************************)
ObjConfigs == {GraphConfig(1, TRUE), GraphConfig(2, TRUE)}
ObjSamples == {58, 59}

InitGraphObj == GraphIdle /\ ApiIdle /\ ServiceStopped

\* Graph g(config)
GObj_Construct ==
    /\ \E a \in GraphAddrs \ DOMAIN gobj, config \in ObjConfigs :
        /\ call' = [op |-> "Graph", before |-> gobj, dst |-> a, src |-> a, sample |-> 0]
        /\ gobj' = graph_construct(gobj, a, config)
    /\ UNCHANGED <<graphVars, serviceVars, apps, tab, build, store>>

\* ~Graph
GObj_Destroy ==
    /\ \E a \in DOMAIN gobj :
        /\ call' = [op |-> "~Graph", before |-> gobj, dst |-> a, src |-> a, sample |-> 0]
        /\ gobj' = Destroyed(gobj, a)
    /\ UNCHANGED <<graphVars, serviceVars, apps, tab, build, store>>

\* Graph dst(src)
GObj_CopyConstruct ==
    /\ \E dst \in GraphAddrs \ DOMAIN gobj, src \in DOMAIN gobj :
        /\ call' = [op |-> "copy", before |-> gobj, dst |-> dst, src |-> src, sample |-> 0]
        /\ gobj' = graph_copy_construct(gobj, dst, src)
    /\ UNCHANGED <<graphVars, serviceVars, apps, tab, build, store>>

\* Graph dst(std::move(src))
GObj_MoveConstruct ==
    /\ \E dst \in GraphAddrs \ DOMAIN gobj, src \in DOMAIN gobj :
        /\ call' = [op |-> "move", before |-> gobj, dst |-> dst, src |-> src, sample |-> 0]
        /\ gobj' = graph_move_construct(gobj, dst, src)
    /\ UNCHANGED <<graphVars, serviceVars, apps, tab, build, store>>

\* dst = src, dst and src possibly the same object
GObj_CopyAssign ==
    /\ \E dst \in DOMAIN gobj, src \in DOMAIN gobj :
        /\ call' = [op |-> "copy=", before |-> gobj, dst |-> dst, src |-> src, sample |-> 0]
        /\ gobj' = graph_copy_assign(gobj, dst, src)
    /\ UNCHANGED <<graphVars, serviceVars, apps, tab, build, store>>

\* dst = std::move(src), dst and src possibly the same object
GObj_MoveAssign ==
    /\ \E dst \in DOMAIN gobj, src \in DOMAIN gobj :
        /\ call' = [op |-> "move=", before |-> gobj, dst |-> dst, src |-> src, sample |-> 0]
        /\ gobj' = graph_move_assign(gobj, dst, src)
    /\ UNCHANGED <<graphVars, serviceVars, apps, tab, build, store>>

\* g.x = sample
GObj_AssignX ==
    /\ \E a \in DOMAIN gobj, sample \in ObjSamples :
        /\ call' = [op |-> "x=", before |-> gobj, dst |-> a, src |-> a, sample |-> sample]
        /\ gobj' = proxy_assign(gobj, a, sample)
    /\ UNCHANGED <<graphVars, serviceVars, apps, tab, build, store>>

NextGraphObj ==
    \/ GObj_Construct
    \/ GObj_Destroy
    \/ GObj_CopyConstruct
    \/ GObj_MoveConstruct
    \/ GObj_CopyAssign
    \/ GObj_MoveAssign
    \/ GObj_AssignX

SpecGraphObj == InitGraphObj /\ [][NextGraphObj]_vars

\* the call made graph dst from another graph src
MadeFrom == call.op \in {"copy", "move", "copy=", "move="} /\ call.dst # call.src

\* C39: g.x = sample has exactly the effect of g.push(sample) on the graph g
\* itself and on no other graph, and reading g.x yields g.latest(); this
\* holds for every graph that exists, a graph made by copy or move
\* construction or assignment included: its proxy refers to the graph
\* itself, so an assignment through it pushes into the new graph and leaves
\* the graph it was copied or moved from as it is
C39_ProxyIsPush ==
    /\ \A a \in DOMAIN gobj :
        /\ gobj[a].x = a
        /\ proxy_float(gobj, a) = latest(gobj[a])
        /\ \A sample \in ObjSamples :
            LET after == proxy_assign(gobj, a, sample)
            IN  /\ DOMAIN after = DOMAIN gobj
                /\ after[a] = push(gobj[a], sample)
                /\ \A b \in DOMAIN gobj \ {a} : after[b] = gobj[b]
    /\ call.op = "x=" =>
        /\ DOMAIN gobj = DOMAIN call.before
        /\ gobj[call.dst] = push(call.before[call.dst], call.sample)
        /\ samples(gobj[call.dst]) =
                LastN(Append(samples(call.before[call.dst]), call.sample),
                      gobj[call.dst].config.max_samples)
        /\ proxy_float(gobj, call.dst) = call.sample
        /\ \A b \in DOMAIN gobj \ {call.dst} : gobj[b] = call.before[b]
    /\ MadeFrom =>
        /\ gobj[call.dst].x = call.dst
        /\ gobj[call.dst].config = call.before[call.src].config
        /\ samples(gobj[call.dst]) = samples(call.before[call.src])
        /\ latest(gobj[call.dst]) = latest(call.before[call.src])

\* a graph was copied from a graph that holds a sample, and an assignment
\* to the x of the copy has pushed into the copy only
C39_Witness ==
    /\ call.op = "x="
    /\ call.dst = 2
    /\ DOMAIN gobj = {1, 2}
    /\ samples(gobj[1]) = <<58>>
    /\ samples(gobj[2]) = <<58, 59>>
    /\ samples(call.before[2]) = <<58>>

====
